---- MODULE Spec2Model ----
(***************************************************************************)
(* Quote feed handler (L5): per-symbol order-book reconstruction from a    *)
(* depth-delta stream plus REST snapshots, and the change-detection        *)
(* publisher.  The model follows cpp/include/order_book_manager.hpp        *)
(* (OrderBookManager) and cpp/src/quote_feed_handler.cpp                   *)
(* (QuoteFeedHandler).  One step of the model is one iteration of a loop   *)
(* of run()/runWebSocketLoop(): a whole inbound message is processed,      *)
(* heartbeat sweep included, before the next state is observed.            *)
(***************************************************************************)
EXTENDS Integers, Sequences, FiniteSets, TLC

(***************************************************************************)
(* Program constants.                                                      *)
(***************************************************************************)
BOOK_DEPTH == 5
PUBLISH_TIMEOUT_MS == 50
INITIAL_BACKOFF_MS == 1000
MAX_BACKOFF_MS == 8000
BACKOFF_MULTIPLIER == 2

(***************************************************************************)
(* Bounds of the model.                                                    *)
(***************************************************************************)
MaxUpdateId == 2        \* exchange update ids U, u and snapshot ids
MaxEventTime == 2       \* exchange event times E (ms) are 1..MaxEventTime
MaxSeqNo == 4           \* cap of fhSeqNo
MaxAttempt == 1         \* cap of binanceReconnectAttempt
MaxPrice == 6           \* prices of the directly driven book are 1..MaxPrice
MaxQty == 2             \* quantities of the directly driven book are 0..MaxQty
MaxFailures == 5        \* cap of the consecutive failures of the reconnect loop
MaxRebuildId == 10      \* cap of the update ids of the contiguous feed
MaxAhead == 2           \* a snapshot of the contiguous feed is at most this far ahead of U - 1
MaxRefDeltas == 3       \* deltas offered to the slot that is compared with the reference book

Levels == 0 .. (BOOK_DEPTH - 1)

Min(a, b) == IF a < b THEN a ELSE b

\* Least element of a set of integers, or dflt when the set is empty.
MinOr(S, dflt) == IF S = {} THEN dflt ELSE CHOOSE x \in S : \A y \in S : x <= y

(***************************************************************************)
(* OrderBookManager.  A manager value m is a record of the class's member  *)
(* vectors; every method is an operator from m (and its arguments) to the  *)
(* manager after the call.                                                 *)
(***************************************************************************)

\* L5Quote with all fields at their defaults (0.0 / false).
EmptyQuote(sym) ==
    [sym |-> sym,
     bidPrices |-> [l \in Levels |-> 0], bidQtys |-> [l \in Levels |-> 0],
     askPrices |-> [l \in Levels |-> 0], askQtys |-> [l \in Levels |-> 0],
     isValid |-> FALSE, exchEventTimeMs |-> 0, fhSeqNo |-> 0]

\* OrderBookManager::OrderBookManager for n symbols.  The steady clock is
\* kept relative: elapsed[i] is now - lastPublishTimes_[i] in ms, saturated
\* at PUBLISH_TIMEOUT_MS (the only value it is ever compared with).
NewManager(n) ==
    [numSymbols |-> n,
     bidPrices |-> [k \in 0 .. (n * BOOK_DEPTH - 1) |-> 0],
     bidQtys |-> [k \in 0 .. (n * BOOK_DEPTH - 1) |-> 0],
     askPrices |-> [k \in 0 .. (n * BOOK_DEPTH - 1) |-> 0],
     askQtys |-> [k \in 0 .. (n * BOOK_DEPTH - 1) |-> 0],
     states |-> [i \in 0 .. (n - 1) |-> "INIT"],
     lastUpdateIds |-> [i \in 0 .. (n - 1) |-> 0],
     snapshotUpdateIds |-> [i \in 0 .. (n - 1) |-> 0],
     exchEventTimeMs |-> [i \in 0 .. (n - 1) |-> 0],
     deltaBuffers |-> [i \in 0 .. (n - 1) |-> <<>>],
     snapshotRequested |-> [i \in 0 .. (n - 1) |-> FALSE],
     lastPublished |-> [i \in 0 .. (n - 1) |-> EmptyQuote(i)],
     elapsed |-> [i \in 0 .. (n - 1) |-> 0],
     hasPublished |-> [i \in 0 .. (n - 1) |-> FALSE]]

\* The symbol indices of a manager.
SymbolsOf(m) == 0 .. (m.numSymbols - 1)

getState(m, idx) == m.states[idx]

isValid(m, idx) == m.states[idx] = "VALID"

needsSnapshot(m, idx) == m.states[idx] = "INIT" /\ ~m.snapshotRequested[idx]

setSnapshotRequested(m, idx, val) ==
    [m EXCEPT !.snapshotRequested[idx] = val]

\* Zero the BOOK_DEPTH slots of symbol idx in one flat array.
ZeroSlots(arr, idx) ==
    [k \in DOMAIN arr |->
        IF k \in (idx * BOOK_DEPTH) .. (idx * BOOK_DEPTH + BOOK_DEPTH - 1)
        THEN 0 ELSE arr[k]]

clearBook(m, idx) ==
    [m EXCEPT !.bidPrices = ZeroSlots(@, idx), !.bidQtys = ZeroSlots(@, idx),
              !.askPrices = ZeroSlots(@, idx), !.askQtys = ZeroSlots(@, idx)]

\* Copy loops that write the levels over the old ones from the last slot
\* backwards (the worst level of the input first).
CopyTopReversed(arr, idx, side, field) ==
    [k \in DOMAIN arr |->
        IF k >= idx * BOOK_DEPTH /\ k - idx * BOOK_DEPTH < Min(Len(side), BOOK_DEPTH)
        THEN side[Min(Len(side), BOOK_DEPTH) - (k - idx * BOOK_DEPTH)][field]
        ELSE arr[k]]

\* The copy loops of applySnapshot: the first min(BOOK_DEPTH, n) levels.
CopyTop(arr, idx, side, field) ==
    [k \in DOMAIN arr |->
        IF k >= idx * BOOK_DEPTH /\ k - idx * BOOK_DEPTH < Min(Len(side), BOOK_DEPTH)
        THEN side[k - idx * BOOK_DEPTH + 1][field] ELSE arr[k]]

applySnapshot(m, idx, lastUpdateId, bids, asks) ==
    LET c == clearBook(m, idx)
    IN [c EXCEPT !.bidPrices = CopyTop(@, idx, bids, "price"),
                 !.bidQtys = CopyTop(@, idx, bids, "qty"),
                 !.askPrices = CopyTop(@, idx, asks, "price"),
                 !.askQtys = CopyTop(@, idx, asks, "qty"),
                 !.snapshotUpdateIds[idx] = lastUpdateId,
                 !.lastUpdateIds[idx] = lastUpdateId,
                 !.states[idx] = "SYNCING"]

invalidate(m, idx) == [m EXCEPT !.states[idx] = "INVALID"]

\* A reset that leaves the ladders of the slot as they are.
resetKeepsBook(m, idx) ==
    [m EXCEPT !.states[idx] = "INIT",
              !.lastUpdateIds[idx] = 0,
              !.snapshotUpdateIds[idx] = 0,
              !.exchEventTimeMs[idx] = 0,
              !.deltaBuffers[idx] = <<>>,
              !.snapshotRequested[idx] = FALSE]

\* A reset that leaves the delta buffer of the slot as it is.
resetKeepsBuffer(m, idx) ==
    LET c == clearBook(m, idx)
    IN [c EXCEPT !.states[idx] = "INIT",
                 !.lastUpdateIds[idx] = 0,
                 !.snapshotUpdateIds[idx] = 0,
                 !.exchEventTimeMs[idx] = 0,
                 !.snapshotRequested[idx] = FALSE]

reset(m, idx) ==
    LET c == clearBook(m, idx)
    IN [c EXCEPT !.states[idx] = "INIT",
                 !.lastUpdateIds[idx] = 0,
                 !.snapshotUpdateIds[idx] = 0,
                 !.exchEventTimeMs[idx] = 0,
                 !.deltaBuffers[idx] = <<>>,
                 !.snapshotRequested[idx] = FALSE]

RECURSIVE resetFrom(_, _)
resetFrom(m, i) == IF i >= m.numSymbols THEN m ELSE resetFrom(reset(m, i), i + 1)

\* A resetAll that leaves every book as it is.
resetAllKeep(m) == m

resetAll(m) == resetFrom(m, 0)

\* Local view of symbol idx's BOOK_DEPTH slots of a flat array.
SlotsOf(arr, idx) == [l \in Levels |-> arr[idx * BOOK_DEPTH + l]]

\* A write-back that ignores the symbol's offset (offset 0 for every symbol).
StoreSlotsAtZero(arr, idx, loc) ==
    [k \in DOMAIN arr |-> IF k \in Levels THEN loc[k] ELSE arr[k]]

\* Write a local ladder array back into the flat array at symbol idx's offset.
StoreSlots(arr, idx, loc) ==
    [k \in DOMAIN arr |->
        IF k \in (idx * BOOK_DEPTH) .. (idx * BOOK_DEPTH + BOOK_DEPTH - 1)
        THEN loc[k - idx * BOOK_DEPTH] ELSE arr[k]]

\* A scan that looks at the first slot only.
ExistingIdxFirstOnly(prices, qtys, update) ==
    IF prices[0] = update.price /\ qtys[0] > 0 THEN 0 ELSE -1

\* A scan that never recognises a price the ladder already holds.
ExistingIdxNone(prices, qtys, update) == -1

\* applyLevelUpdate, scan loop: index of the level holding update.price, or -1.
ExistingIdx(prices, qtys, update) ==
    MinOr({i \in Levels : prices[i] = update.price /\ qtys[i] > 0}, -1)

\* An insertion point that ignores the side's ordering: the first empty slot.
InsertIdxFirstEmpty(prices, isBid, update, existingIdx) ==
    MinOr({i \in Levels : (existingIdx < 0 \/ i < existingIdx) /\ prices[i] = 0},
          BOOK_DEPTH)

\* applyLevelUpdate, scan loop: first slot that is empty or worse than the
\* update's price among the slots scanned before the loop breaks.
InsertIdx(prices, isBid, update, existingIdx) ==
    MinOr({i \in Levels :
              /\ (existingIdx < 0 \/ i < existingIdx)
              /\ (prices[i] = 0
                  \/ (IF isBid THEN update.price > prices[i]
                               ELSE update.price < prices[i]))},
          BOOK_DEPTH)

\* A delete that zeroes the slot and shifts nothing.
DeleteAtNoShift(loc, existingIdx) ==
    [i \in Levels |-> IF i = existingIdx THEN 0 ELSE loc[i]]

\* A delete that shifts the later levels up and leaves the last slot as it is.
DeleteAtKeepLast(loc, existingIdx) ==
    [i \in Levels |->
        IF i < existingIdx THEN loc[i]
        ELSE IF i < BOOK_DEPTH - 1 THEN loc[i + 1] ELSE loc[i]]

\* applyLevelUpdate, delete branch: shift the levels after existingIdx up.
DeleteAt(loc, existingIdx) ==
    [i \in Levels |->
        IF i < existingIdx THEN loc[i]
        ELSE IF i < BOOK_DEPTH - 1 THEN loc[i + 1] ELSE 0]

\* An insert that overwrites the slot at insertIdx and shifts nothing.
InsertAtOverwrite(loc, insertIdx, val) == [loc EXCEPT ![insertIdx] = val]

\* applyLevelUpdate, insert branch: shift the levels from insertIdx down.
InsertAt(loc, insertIdx, val) ==
    [i \in Levels |->
        IF i < insertIdx THEN loc[i]
        ELSE IF i = insertIdx THEN val ELSE loc[i - 1]]

\* applyLevelUpdate on the local ladder (prices, qtys) of one side.
LevelUpdate(prices, qtys, isBid, update) ==
    LET existingIdx == ExistingIdx(prices, qtys, update)
        insertIdx == InsertIdx(prices, isBid, update, existingIdx)
    IN IF update.qty = 0
       THEN IF existingIdx >= 0
            THEN [prices |-> DeleteAt(prices, existingIdx),
                  qtys |-> DeleteAt(qtys, existingIdx)]
            ELSE [prices |-> prices, qtys |-> qtys]
       ELSE IF existingIdx >= 0
            THEN [prices |-> prices,
                  qtys |-> [qtys EXCEPT ![existingIdx] = update.qty]]
            ELSE IF insertIdx < BOOK_DEPTH
                 THEN [prices |-> InsertAt(prices, insertIdx, update.price),
                       qtys |-> InsertAt(qtys, insertIdx, update.qty)]
                 ELSE [prices |-> prices, qtys |-> qtys]

applyLevelUpdate(m, idx, isBid, update) ==
    IF isBid
    THEN LET r == LevelUpdate(SlotsOf(m.bidPrices, idx), SlotsOf(m.bidQtys, idx),
                              TRUE, update)
         IN [m EXCEPT !.bidPrices = StoreSlots(@, idx, r.prices),
                      !.bidQtys = StoreSlots(@, idx, r.qtys)]
    ELSE LET r == LevelUpdate(SlotsOf(m.askPrices, idx), SlotsOf(m.askQtys, idx),
                              FALSE, update)
         IN [m EXCEPT !.askPrices = StoreSlots(@, idx, r.prices),
                      !.askQtys = StoreSlots(@, idx, r.qtys)]

\* The two "for (const auto& upd : ...)" loops of applyDelta.
RECURSIVE applyUpdates(_, _, _, _)
applyUpdates(m, idx, isBid, updates) ==
    IF updates = <<>> THEN m
    ELSE applyUpdates(applyLevelUpdate(m, idx, isBid, Head(updates)),
                      idx, isBid, Tail(updates))

\* applyDelta, SYNCING: the snapshot is older than the delta's range.
SnapshotTooOld(m, idx, firstUpdateId) ==
    firstUpdateId > m.snapshotUpdateIds[idx] + 1

\* A stale test that also rejects a delta ending exactly at the snapshot's
\* next id (finalUpdateId <= snapshotUpdateId + 1).
StaleDeltaInclusive(m, idx, finalUpdateId) ==
    finalUpdateId <= m.snapshotUpdateIds[idx] + 1

\* A stale test that finds no delta stale.
StaleDeltaNever(m, idx, finalUpdateId) == FALSE

\* applyDelta, SYNCING: the delta ends before the snapshot's next id.
StaleDelta(m, idx, finalUpdateId) ==
    finalUpdateId < m.snapshotUpdateIds[idx] + 1

\* A gap test that lets overlapping ranges through (only ids ahead are a gap).
SequenceGapAheadOnly(m, idx, firstUpdateId) ==
    firstUpdateId > m.lastUpdateIds[idx] + 1

\* applyDelta, VALID: the delta does not continue the sequence.
SequenceGap(m, idx, firstUpdateId) ==
    firstUpdateId # m.lastUpdateIds[idx] + 1

\* A tail that applies the level updates and leaves lastUpdateIds_ as it is.
ApplyAcceptedKeepsId(m, idx, finalUpdateId, bidUpdates, askUpdates, eventTimeMs) ==
    LET b == applyUpdates(m, idx, TRUE, bidUpdates)
        a == applyUpdates(b, idx, FALSE, askUpdates)
    IN [a EXCEPT !.exchEventTimeMs[idx] = eventTimeMs]

\* applyDelta, tail: the level updates, then lastUpdateIds_ and exchEventTimeMs_.
ApplyAccepted(m, idx, finalUpdateId, bidUpdates, askUpdates, eventTimeMs) ==
    LET b == applyUpdates(m, idx, TRUE, bidUpdates)
        a == applyUpdates(b, idx, FALSE, askUpdates)
    IN [a EXCEPT !.lastUpdateIds[idx] = finalUpdateId,
                 !.exchEventTimeMs[idx] = eventTimeMs]

\* applyDelta: the manager after the call and the returned bool.
applyDelta(m, idx, firstUpdateId, finalUpdateId, bidUpdates, askUpdates, eventTimeMs) ==
    LET state == m.states[idx]
    IN IF state = "SYNCING"
       THEN IF SnapshotTooOld(m, idx, firstUpdateId)
            THEN [mgr |-> invalidate(m, idx), ret |-> FALSE]
            ELSE IF StaleDelta(m, idx, finalUpdateId)
                 THEN [mgr |-> m, ret |-> TRUE]
                 ELSE [mgr |-> ApplyAccepted([m EXCEPT !.states[idx] = "VALID"], idx,
                                             finalUpdateId, bidUpdates, askUpdates,
                                             eventTimeMs),
                       ret |-> TRUE]
       ELSE IF state = "VALID"
            THEN IF SequenceGap(m, idx, firstUpdateId)
                 THEN [mgr |-> invalidate(m, idx), ret |-> FALSE]
                 ELSE [mgr |-> ApplyAccepted(m, idx, finalUpdateId, bidUpdates,
                                             askUpdates, eventTimeMs),
                       ret |-> TRUE]
            ELSE [mgr |-> m, ret |-> FALSE]

\* getL5: q.isValid.
QuoteValidity(m, idx) == m.states[idx] = "VALID"

\* getL5: q.exchEventTimeMs.
QuoteEventTime(m, idx) == m.exchEventTimeMs[idx]

\* getL5.  fhRecvTimeUtcNs is copied from the argument to the sink row and
\* read by no decision; the quote of the model leaves it out.
getL5(m, idx, seqNo) ==
    [sym |-> idx,
     bidPrices |-> SlotsOf(m.bidPrices, idx), bidQtys |-> SlotsOf(m.bidQtys, idx),
     askPrices |-> SlotsOf(m.askPrices, idx), askQtys |-> SlotsOf(m.askQtys, idx),
     isValid |-> QuoteValidity(m, idx),
     exchEventTimeMs |-> QuoteEventTime(m, idx),
     fhSeqNo |-> seqNo]

samePricesAs(a, b) ==
    \A l \in Levels :
        /\ a.bidPrices[l] = b.bidPrices[l] /\ a.bidQtys[l] = b.bidQtys[l]
        /\ a.askPrices[l] = b.askPrices[l] /\ a.askQtys[l] = b.askQtys[l]

\* A shouldPublish that looks at the timeout before the "invalid: no" rule.
shouldPublishTimeoutFirst(m, idx, current) ==
    IF ~m.hasPublished[idx] THEN TRUE
    ELSE IF current.isValid # m.lastPublished[idx].isValid THEN TRUE
    ELSE IF m.elapsed[idx] >= PUBLISH_TIMEOUT_MS THEN TRUE
    ELSE IF ~current.isValid THEN FALSE
    ELSE ~samePricesAs(current, m.lastPublished[idx])

shouldPublish(m, idx, current) ==
    IF ~m.hasPublished[idx] THEN TRUE
    ELSE IF current.isValid # m.lastPublished[idx].isValid THEN TRUE
    ELSE IF ~current.isValid THEN FALSE
    ELSE IF ~samePricesAs(current, m.lastPublished[idx]) THEN TRUE
    ELSE IF m.elapsed[idx] >= PUBLISH_TIMEOUT_MS THEN TRUE
    ELSE FALSE

\* A recordPublish that leaves lastPublishTimes_ as it was.
recordPublishKeepsTime(m, idx, quote) ==
    [m EXCEPT !.lastPublished[idx] = quote,
              !.hasPublished[idx] = TRUE]

recordPublish(m, idx, quote) ==
    [m EXCEPT !.lastPublished[idx] = quote,
              !.elapsed[idx] = 0,
              !.hasPublished[idx] = TRUE]

\* getTimeoutPublishNeeded: the test that selects symbol i.
TimeoutPublishNeeded(m, i) ==
    /\ m.states[i] = "VALID"
    /\ m.hasPublished[i]
    /\ m.elapsed[i] >= PUBLISH_TIMEOUT_MS

\* getTimeoutPublishNeeded: the selected indices in increasing order.
RECURSIVE timeoutFrom(_, _)
timeoutFrom(m, i) ==
    IF i >= m.numSymbols THEN <<>>
    ELSE (IF TimeoutPublishNeeded(m, i) THEN <<i>> ELSE <<>>)
         \o timeoutFrom(m, i + 1)

getTimeoutPublishNeeded(m) == timeoutFrom(m, 0)

\* The steady clock advances by d ms.
Advance(m, d) ==
    [m EXCEPT !.elapsed = [i \in SymbolsOf(m) |-> Min(@[i] + d, PUBLISH_TIMEOUT_MS)]]

(***************************************************************************)
(* QuoteFeedHandler.  A handler value h carries the members the message    *)
(* path writes (mgr = *bookMgr_, fhSeqNo, tpHandle, running) together with *)
(* what the environment answers during the message (sink) and the record   *)
(* of what the message did (sent, calls, attempts), which only the         *)
(* properties read.  The health counters, connState_ and the log lines     *)
(* are written but never read by the message path and are left out, and so *)
(* is publishHealth(), which writes no member.                             *)
(***************************************************************************)

\* What the sink does with one quote: the send succeeds; it returns null and
\* the resend on the rebuilt transport succeeds / fails; it returns null and
\* stop() arrives while connectToTP is retrying.
SinkOutcomes == {"ok", "resent", "dropped", "stopped"}

\* publishL5, knk(26, ...): the row built from a quote, in schema order (the
\* two time fields come from fhRecvTimeUtcNs, which the quote of the model
\* leaves out).
Row(quote) ==
    <<quote.sym>>
    \o [l \in 1 .. BOOK_DEPTH |-> quote.bidPrices[l - 1]]
    \o [l \in 1 .. BOOK_DEPTH |-> quote.bidQtys[l - 1]]
    \o [l \in 1 .. BOOK_DEPTH |-> quote.askPrices[l - 1]]
    \o [l \in 1 .. BOOK_DEPTH |-> quote.askQtys[l - 1]]
    \o <<quote.isValid, quote.exchEventTimeMs, quote.fhSeqNo>>

\* A publishL5 that rebuilds the transport but does not send the row again.
RowsSentOnce(quote, outcome) == <<Row(quote)>>

\* publishL5: the rows handed to k(): row, and row2 when the first send
\* returned null and connectToTP() came back true.
RowsSent(quote, outcome) ==
    <<Row(quote)>> \o (IF outcome \in {"resent", "dropped"} THEN <<Row(quote)>> ELSE <<>>)

\* publishL5: send the row, and on a null result close, reconnect and resend.
publishL5(h, quote, path, stateAt) ==
    LET k == Len(h.sent) + 1
        answer == IF k <= Len(h.sink) THEN h.sink[k] ELSE "ok"
        outcome == IF answer = "ok" THEN "ok"
                   ELSE IF ~h.running THEN "stopped" ELSE answer
        handleAfter == IF outcome = "ok" THEN h.tpHandle
                       ELSE IF outcome = "stopped" THEN -1 ELSE 1
    IN [h EXCEPT !.tpHandle = handleAfter,
                 !.running = IF outcome = "stopped" THEN FALSE ELSE @,
                 !.sent = Append(@, [quote |-> quote, path |-> path,
                                     stateAt |-> stateAt, handle |-> h.tpHandle,
                                     outcome |-> outcome,
                                     rows |-> RowsSent(quote, outcome),
                                     handleAfter |-> handleAfter])]

\* A maybePublish that records the quote only when a send went through.
maybePublishRecordsDelivered(h, symIdx) ==
    LET h1 == [h EXCEPT !.fhSeqNo = @ + 1, !.attempts = @ \cup {symIdx}]
        quote == getL5(h1.mgr, symIdx, h1.fhSeqNo)
    IN IF shouldPublish(h1.mgr, symIdx, quote)
       THEN LET h2 == publishL5(h1, quote, "maybePublish", h1.mgr.states[symIdx])
            IN IF h2.sent[Len(h2.sent)].outcome \in {"ok", "resent"}
               THEN [h2 EXCEPT !.mgr = recordPublish(@, symIdx, quote)]
               ELSE h2
       ELSE h1

maybePublish(h, symIdx) ==
    LET h1 == [h EXCEPT !.fhSeqNo = @ + 1, !.attempts = @ \cup {symIdx}]
        quote == getL5(h1.mgr, symIdx, h1.fhSeqNo)
    IN IF shouldPublish(h1.mgr, symIdx, quote)
       THEN LET h2 == publishL5(h1, quote, "maybePublish", h1.mgr.states[symIdx])
            IN [h2 EXCEPT !.mgr = recordPublish(@, symIdx, quote)]
       ELSE h1

\* A synthetic quote that keeps the valid label.
InvalidQuoteLabelledValid(symIdx, seqNo) ==
    [EmptyQuote(symIdx) EXCEPT !.isValid = TRUE, !.fhSeqNo = seqNo]

\* publishInvalid: the synthetic quote, all price/qty fields at their defaults.
InvalidQuote(symIdx, seqNo) ==
    [EmptyQuote(symIdx) EXCEPT !.isValid = FALSE, !.fhSeqNo = seqNo]

\* A publishInvalid that reuses the current sequence number.
publishInvalidSameSeq(h, symIdx) ==
    LET quote == InvalidQuote(symIdx, h.fhSeqNo)
        h2 == publishL5(h, quote, "publishInvalid", h.mgr.states[symIdx])
    IN [h2 EXCEPT !.mgr = recordPublish(@, symIdx, quote)]

publishInvalid(h, symIdx) ==
    LET h1 == [h EXCEPT !.fhSeqNo = @ + 1]
        quote == InvalidQuote(symIdx, h1.fhSeqNo)
        h2 == publishL5(h1, quote, "publishInvalid", h1.mgr.states[symIdx])
    IN [h2 EXCEPT !.mgr = recordPublish(@, symIdx, quote)]

\* The record of one applyDelta call: the slot before, the ids compared, the
\* returned bool and the slot after (r is what applyDelta returned).
CallRecord(h, symIdx, delta, from, r) ==
    [sym |-> symIdx, from |-> from,
     pre |-> h.mgr.states[symIdx],
     snapshotUpdateId |-> h.mgr.snapshotUpdateIds[symIdx],
     lastUpdateId |-> h.mgr.lastUpdateIds[symIdx],
     firstUpdateId |-> delta.firstUpdateId,
     finalUpdateId |-> delta.finalUpdateId,
     ret |-> r.ret,
     post |-> r.mgr.states[symIdx],
     untouched |-> /\ r.mgr.bidPrices = h.mgr.bidPrices
                   /\ r.mgr.bidQtys = h.mgr.bidQtys
                   /\ r.mgr.askPrices = h.mgr.askPrices
                   /\ r.mgr.askQtys = h.mgr.askQtys,
     lastUpdateIdAfter |-> r.mgr.lastUpdateIds[symIdx],
     exchEventTimeMs |-> h.mgr.exchEventTimeMs[symIdx],
     exchEventTimeMsAfter |-> r.mgr.exchEventTimeMs[symIdx]]

\* The handler after an applyDelta call that returned r, and the bool.
Called(h, symIdx, delta, from, r) ==
    [h |-> [h EXCEPT !.mgr = r.mgr,
                     !.calls = Append(@, CallRecord(h, symIdx, delta, from, r))],
     ret |-> r.ret]

\* One call of bookMgr_->applyDelta from the handler, with its record.
CallApplyDelta(h, symIdx, delta, from) ==
    Called(h, symIdx, delta, from,
           applyDelta(h.mgr, symIdx, delta.firstUpdateId, delta.finalUpdateId,
                      delta.bids, delta.asks, delta.eventTimeMs))

\* requestSnapshot, "while (!buffer.empty())": replay until a delta fails.
RECURSIVE replayBuffer(_, _)
replayBuffer(h, symIdx) ==
    LET buffer == h.mgr.deltaBuffers[symIdx]
    IN IF buffer = <<>> THEN h
       ELSE LET r == CallApplyDelta(h, symIdx, Head(buffer), "replay")
            IN IF ~r.ret THEN r.h
               ELSE replayBuffer([r.h EXCEPT !.mgr.deltaBuffers[symIdx] = Tail(@)],
                                 symIdx)

\* requestSnapshot: what it does when the fetch reports an error.
SnapshotFailed(h, symIdx) ==
    [h EXCEPT !.mgr = invalidate(@, symIdx)]

\* requestSnapshot: what it does once the snapshot is applied.
SnapshotReplay(h, symIdx) ==
    LET h1 == replayBuffer(h, symIdx)
    IN [h1 EXCEPT !.mgr.deltaBuffers[symIdx] = <<>>]

requestSnapshot(h, symIdx, snapshot) ==
    LET h1 == [h EXCEPT !.mgr = setSnapshotRequested(@, symIdx, TRUE),
                        !.fetches = @ \cup {symIdx}]
    IN IF ~snapshot.success
       THEN SnapshotFailed(h1, symIdx)
       ELSE SnapshotReplay(
                [h1 EXCEPT !.mgr = applySnapshot(@, symIdx, snapshot.lastUpdateId,
                                                 snapshot.bids, snapshot.asks),
                           !.applied = @ \cup {symIdx}],
                symIdx)

\* handleDelta, case INIT.
HandleInit(h, symIdx, delta, snapshot) ==
    LET h1 == [h EXCEPT !.mgr.deltaBuffers[symIdx] = Append(@, delta)]
    IN IF needsSnapshot(h1.mgr, symIdx)
       THEN requestSnapshot(h1, symIdx, snapshot)
       ELSE h1

\* A SYNCING case that publishes after every applied delta, VALID or not.
HandleSyncingUnguarded(h, symIdx, delta) ==
    LET r == CallApplyDelta(h, symIdx, delta, "live")
    IN IF ~r.ret
       THEN LET h1 == publishInvalid(r.h, symIdx)
            IN [h1 EXCEPT !.mgr = reset(@, symIdx)]
       ELSE maybePublish(r.h, symIdx)

\* handleDelta, case SYNCING.
HandleSyncing(h, symIdx, delta) ==
    LET r == CallApplyDelta(h, symIdx, delta, "live")
    IN IF ~r.ret
       THEN LET h1 == publishInvalid(r.h, symIdx)
            IN [h1 EXCEPT !.mgr = reset(@, symIdx)]
       ELSE IF isValid(r.h.mgr, symIdx) THEN maybePublish(r.h, symIdx) ELSE r.h

\* A VALID case that resets on a gap without publishing the invalidation.
HandleValidSilent(h, symIdx, delta) ==
    LET r == CallApplyDelta(h, symIdx, delta, "live")
    IN IF ~r.ret
       THEN [r.h EXCEPT !.mgr = reset(@, symIdx)]
       ELSE maybePublish(r.h, symIdx)

\* handleDelta, case VALID.
HandleValid(h, symIdx, delta) ==
    LET r == CallApplyDelta(h, symIdx, delta, "live")
    IN IF ~r.ret
       THEN LET h1 == publishInvalid(r.h, symIdx)
            IN [h1 EXCEPT !.mgr = reset(@, symIdx)]
       ELSE maybePublish(r.h, symIdx)

\* An INVALID case that marks the slot INVALID again instead of resetting it.
HandleInvalidStays(h, symIdx, delta) ==
    [h EXCEPT !.mgr = invalidate(@, symIdx)]

\* An INVALID case that drops the delta and leaves the slot as it is.
HandleInvalidIgnores(h, symIdx, delta) == h

\* handleDelta, case INVALID.
HandleInvalid(h, symIdx, delta) ==
    [h EXCEPT !.mgr = reset(@, symIdx)]

handleDelta(h, symIdx, delta, snapshot) ==
    LET state == getState(h.mgr, symIdx)
    IN CASE state = "INIT" -> HandleInit(h, symIdx, delta, snapshot)
         [] state = "SYNCING" -> HandleSyncing(h, symIdx, delta)
         [] state = "VALID" -> HandleValid(h, symIdx, delta)
         [] state = "INVALID" -> HandleInvalid(h, symIdx, delta)

\* checkPublishTimeouts, the loop over needsPublish.
RECURSIVE publishTimeouts(_, _)
publishTimeouts(h, needsPublish) ==
    IF needsPublish = <<>> THEN h
    ELSE LET symIdx == Head(needsPublish)
             h1 == [h EXCEPT !.fhSeqNo = @ + 1]
             quote == getL5(h1.mgr, symIdx, h1.fhSeqNo)
             h2 == publishL5(h1, quote, "heartbeat", h1.mgr.states[symIdx])
             h3 == [h2 EXCEPT !.mgr = recordPublish(@, symIdx, quote)]
         IN publishTimeouts(h3, Tail(needsPublish))

checkPublishTimeouts(h) == publishTimeouts(h, getTimeoutPublishNeeded(h.mgr))

\* sleepWithBackoff: the delay computed for the attempt-th retry.
RECURSIVE backoffLoop(_, _, _)
backoffLoop(delay, i, attempt) ==
    IF i < attempt /\ delay < MAX_BACKOFF_MS
    THEN backoffLoop(delay * BACKOFF_MULTIPLIER, i + 1, attempt)
    ELSE delay

\* A delay that grows by INITIAL_BACKOFF_MS per attempt instead of doubling.
BackoffDelayLinear(attempt) ==
    Min(INITIAL_BACKOFF_MS * (attempt + 1), MAX_BACKOFF_MS)

BackoffDelay(attempt) == Min(backoffLoop(INITIAL_BACKOFF_MS, 0, attempt), MAX_BACKOFF_MS)

(***************************************************************************)
(* The environment.  Two configurations are explored: one symbol against   *)
(* the full alphabet of the feed, the snapshot collaborator and the sink,  *)
(* and two symbols against a reduced alphabet (each symbol of a            *)
(* configuration is fed from the same alphabet).                           *)
(***************************************************************************)
SymbolCounts == {1, 2}

\* Ranges [U, u] of exchange update ids a delta can carry.
DeltaIds == {r \in (1 .. MaxUpdateId) \X (1 .. MaxUpdateId) : r[1] <= r[2]}

\* Level updates carried by the deltas of the feed (qty 0 = delete).
Payloads(n) ==
    IF n = 1
    THEN {[bids |-> <<[price |-> 1, qty |-> 1]>>, asks |-> <<[price |-> 2, qty |-> 1]>>],
          [bids |-> <<[price |-> 1, qty |-> 0]>>, asks |-> <<>>]}
    ELSE {[bids |-> <<[price |-> 1, qty |-> 0]>>, asks |-> <<>>]}

\* Event times E a delta can carry when the exchange's clock shows c: the
\* feed's event times never decrease.
EventTimes(n, c) == IF n = 1 THEN c .. MaxEventTime ELSE {c}

NoSnapshot == [success |-> FALSE, lastUpdateId |-> 0, bids |-> <<>>, asks |-> <<>>]

\* Snapshot with lastUpdateId id (exchange-sorted sides, positive qty).
SnapshotAt(id) ==
    [success |-> TRUE, lastUpdateId |-> id,
     bids |-> <<[price |-> 1, qty |-> 1]>>, asks |-> <<[price |-> 2, qty |-> 1]>>]

\* What fetchSnapshot can return: an error, or a book with its lastUpdateId.
SnapshotResults(n) ==
    IF n = 1
    THEN {NoSnapshot} \cup {SnapshotAt(id) : id \in 0 .. MaxUpdateId}
    ELSE {SnapshotAt(0)}

\* Time that passes while the loop is blocked in ws.read (ms).
ClockSteps == {0, PUBLISH_TIMEOUT_MS}

\* The sink's answers to the k sends of one step.
SinkScripts(k) == [1 .. k -> SinkOutcomes]

(***************************************************************************)
(* The state machine: run(), runWebSocketLoop() and stop().                *)
(***************************************************************************)
VARIABLES
    bookMgr,                  \* *bookMgr_
    fhSeqNo,                  \* fhSeqNo_
    tpHandle,                 \* tpHandle_
    running,                  \* running_
    binanceReconnectAttempt,  \* binanceReconnectAttempt_
    pc,                       \* where run() stands
    exchClock,                \* environment: the exchange's event clock
    ev,                       \* record: the step just taken
    sent,                     \* record: quotes handed to publishL5 in that step
    calls,                    \* record: applyDelta calls of that step
    attempts,                 \* record: symbols maybePublish was called for
    fetches,                  \* record: symbols a snapshot was fetched for
    applied,                  \* record: symbols a snapshot was applied to
    lastSent,                 \* record: the last quote sent, per symbol
    lastSeqSent,              \* record: fhSeqNo of the last quote sent (0: none)
    resetSinceSent            \* record: resetAll ran since the last quote was sent

vars == <<bookMgr, fhSeqNo, tpHandle, running, binanceReconnectAttempt, pc,
          exchClock, ev, sent, calls, attempts, fetches, applied, lastSent,
          lastSeqSent, resetSinceSent>>

Symbols == SymbolsOf(bookMgr)

Init ==
    /\ \E n \in SymbolCounts :
         /\ bookMgr = NewManager(n)
         /\ lastSent = [i \in 0 .. (n - 1) |-> EmptyQuote(i)]
    /\ fhSeqNo = 0
    /\ tpHandle = -1
    /\ running = TRUE
    /\ binanceReconnectAttempt = 0
    /\ pc = "start"
    /\ exchClock = 1
    /\ ev = [kind |-> "init", sym |-> 0, pre |-> "INIT"]
    /\ sent = <<>>
    /\ calls = <<>>
    /\ attempts = {}
    /\ fetches = {}
    /\ applied = {}
    /\ lastSeqSent = 0
    /\ resetSinceSent = FALSE

\* The handler value at the start of a message, the sink answering by script.
Begin(m, sink) ==
    [mgr |-> m, fhSeqNo |-> fhSeqNo, tpHandle |-> tpHandle, running |-> running,
     sink |-> sink, sent |-> <<>>, calls |-> <<>>, attempts |-> {},
     fetches |-> {}, applied |-> {}]

\* The last quote of symbol i among the first k quotes of out, or dflt.
RECURSIVE LastOf(_, _, _, _)
LastOf(out, k, i, dflt) ==
    IF k = 0 THEN dflt
    ELSE IF out[k].quote.sym = i THEN out[k].quote
    ELSE LastOf(out, k - 1, i, dflt)

\* The quotes of one step as recorded: each with the quote sent before it for
\* the same symbol (fhSeqNo 0: none), the fhSeqNo of the quote sent before it
\* overall, and whether resetAll ran in between.
Recorded(out) ==
    [k \in 1 .. Len(out) |->
        [quote |-> out[k].quote, path |-> out[k].path, stateAt |-> out[k].stateAt,
         handle |-> out[k].handle, outcome |-> out[k].outcome,
         rows |-> out[k].rows, handleAfter |-> out[k].handleAfter,
         prev |-> LastOf(out, k - 1, out[k].quote.sym, lastSent[out[k].quote.sym]),
         prevSeq |-> IF k = 1 THEN lastSeqSent ELSE out[k - 1].quote.fhSeqNo,
         afterReset |-> (k = 1 /\ resetSinceSent)]]

\* The members and the records after a message handled as h.
Commit(h, e) ==
    /\ bookMgr' = h.mgr
    /\ fhSeqNo' = h.fhSeqNo
    /\ tpHandle' = h.tpHandle
    /\ running' = h.running
    /\ ev' = e
    /\ sent' = Recorded(h.sent)
    /\ calls' = h.calls
    /\ attempts' = h.attempts
    /\ fetches' = h.fetches
    /\ applied' = h.applied
    /\ lastSent' = [i \in Symbols |-> LastOf(h.sent, Len(h.sent), i, lastSent[i])]
    /\ lastSeqSent' = IF h.sent = <<>> THEN lastSeqSent
                      ELSE h.sent[Len(h.sent)].quote.fhSeqNo
    /\ resetSinceSent' = IF h.sent = <<>> THEN resetSinceSent ELSE FALSE

\* A step that handles no message: nothing is sent, called or fetched.
Quiet(kind) ==
    /\ ev' = [kind |-> kind, sym |-> 0, pre |-> "INIT"]
    /\ sent' = <<>>
    /\ calls' = <<>>
    /\ attempts' = {}
    /\ fetches' = {}
    /\ applied' = {}
    /\ UNCHANGED <<lastSent, lastSeqSent, exchClock, fhSeqNo>>

\* run(): connectToTP() succeeds.
ConnectToTP ==
    /\ pc = "start" /\ running
    /\ tpHandle' = 1
    /\ pc' = "connect"
    /\ Quiet("connectToTP")
    /\ UNCHANGED <<bookMgr, running, binanceReconnectAttempt, resetSinceSent>>

\* run(): connectToTP() returns false because stop() came first.
ConnectToTPStopped ==
    /\ pc = "start" /\ ~running
    /\ pc' = "done"
    /\ Quiet("return")
    /\ UNCHANGED <<bookMgr, tpHandle, running, binanceReconnectAttempt, resetSinceSent>>

\* runWebSocketLoop(): resetAll, then the handshakes succeed.
WsConnect ==
    /\ pc = "connect" /\ running
    /\ bookMgr' = resetAll(bookMgr)
    /\ binanceReconnectAttempt' = 0
    /\ resetSinceSent' = TRUE
    /\ pc' = "loop"
    /\ Quiet("wsConnect")
    /\ UNCHANGED <<tpHandle, running>>

\* runWebSocketLoop(): resetAll, then resolve/connect/handshake throws; run()
\* catches and sleeps with backoff.
WsConnectFail ==
    /\ pc = "connect" /\ running
    /\ binanceReconnectAttempt < MaxAttempt
    /\ bookMgr' = Advance(resetAll(bookMgr), BackoffDelay(binanceReconnectAttempt))
    /\ binanceReconnectAttempt' = binanceReconnectAttempt + 1
    /\ resetSinceSent' = TRUE
    /\ pc' = "connect"
    /\ Quiet("wsConnectFail")
    /\ UNCHANGED <<tpHandle, running>>

\* runWebSocketLoop(): ws.read throws; run() catches and sleeps with backoff.
ReadFailure ==
    /\ pc = "loop" /\ running
    /\ binanceReconnectAttempt < MaxAttempt
    /\ bookMgr' = Advance(bookMgr, BackoffDelay(binanceReconnectAttempt))
    /\ binanceReconnectAttempt' = binanceReconnectAttempt + 1
    /\ pc' = "connect"
    /\ Quiet("readFailure")
    /\ UNCHANGED <<tpHandle, running, resetSinceSent>>

\* processMessage (for a delta of a configured symbol) -> handleDelta, then
\* checkPublishTimeouts.
HandleMessage(m, sink, symIdx, delta, snapshot) ==
    checkPublishTimeouts(handleDelta(Begin(m, sink), symIdx, delta, snapshot))

\* One message of the loop that carries a delta of a configured symbol.
ProcessDelta ==
    /\ pc = "loop" /\ running
    /\ \E dt \in ClockSteps, symIdx \in Symbols, r \in DeltaIds,
          E \in EventTimes(bookMgr.numSymbols, exchClock),
          payload \in Payloads(bookMgr.numSymbols) :
         \E m0 \in {Advance(bookMgr, dt)},
            delta \in {[firstUpdateId |-> r[1], finalUpdateId |-> r[2],
                        eventTimeMs |-> E,
                        bids |-> payload.bids, asks |-> payload.asks]} :
           \E snapshot \in (IF needsSnapshot(m0, symIdx)
                            THEN SnapshotResults(bookMgr.numSymbols)
                            ELSE {NoSnapshot}) :
             \E dry \in {HandleMessage(m0, <<>>, symIdx, delta, snapshot)} :
               \E sink \in SinkScripts(Len(dry.sent)) :
                 \E h \in {HandleMessage(m0, sink, symIdx, delta, snapshot)} :
                    /\ h.fhSeqNo <= MaxSeqNo
                    /\ exchClock' = E
                    /\ Commit(h, [kind |-> "delta", sym |-> symIdx,
                                  pre |-> bookMgr.states[symIdx],
                                  due |-> {i \in Symbols :
                                             TimeoutPublishNeeded(m0, i)}])
    /\ UNCHANGED <<binanceReconnectAttempt, pc>>

\* One message that processMessage drops (not an object, no data, unknown
\* symbol, no U or u): only checkPublishTimeouts acts.
ProcessIgnored ==
    /\ pc = "loop" /\ running
    /\ \E dt \in ClockSteps :
         \E m0 \in {Advance(bookMgr, dt)} :
           \E dry \in {checkPublishTimeouts(Begin(m0, <<>>))} :
             \E sink \in SinkScripts(Len(dry.sent)) :
               \E h \in {checkPublishTimeouts(Begin(m0, sink))} :
                  /\ h.fhSeqNo <= MaxSeqNo
                  /\ Commit(h, [kind |-> "ignored", sym |-> 0, pre |-> "INIT",
                                due |-> {i \in Symbols :
                                           TimeoutPublishNeeded(m0, i)}])
    /\ UNCHANGED <<binanceReconnectAttempt, pc, exchClock>>

\* stop(), from the signal handler.
Stop ==
    /\ running /\ pc # "done"
    /\ running' = FALSE
    /\ Quiet("stop")
    /\ UNCHANGED <<bookMgr, tpHandle, binanceReconnectAttempt, pc, resetSinceSent>>

\* run(): the loops see running_ false; cleanup closes the sink handle.
Shutdown ==
    /\ pc \in {"connect", "loop"} /\ ~running
    /\ tpHandle' = -1
    /\ pc' = "done"
    /\ Quiet("shutdown")
    /\ UNCHANGED <<bookMgr, running, binanceReconnectAttempt, resetSinceSent>>

Next ==
    \/ ConnectToTP
    \/ ConnectToTPStopped
    \/ WsConnect
    \/ WsConnectFail
    \/ ReadFailure
    \/ ProcessDelta
    \/ ProcessIgnored
    \/ Stop
    \/ Shutdown

Spec == Init /\ [][Next]_vars

(***************************************************************************)
(* The book store driven directly: any sequence of applySnapshot,          *)
(* applyLevelUpdate, applyDelta and reset calls on the slot of one symbol, *)
(* and handleDelta on the fresh slot.  A run keeps its level updates to    *)
(* one side of the book, chosen at the start (the two sides are separate   *)
(* arrays; the other side is written by snapshots and resets only).  ev    *)
(* records the call just made.                                             *)
(***************************************************************************)
Prices == 1 .. MaxPrice

\* The elements of a set of prices, best bid first (descending).
RECURSIVE Descending(_)
Descending(S) ==
    IF S = {} THEN <<>>
    ELSE LET top == CHOOSE x \in S : \A y \in S : y <= x
         IN <<top>> \o Descending(S \ {top})

\* The elements of a set of prices, best ask first (ascending).
RECURSIVE Ascending(_)
Ascending(S) ==
    IF S = {} THEN <<>>
    ELSE LET low == CHOOSE x \in S : \A y \in S : x <= y
         IN <<low>> \o Ascending(S \ {low})

\* One side of a snapshot: the prices in exchange order, quantities 1 or 2.
SnapshotSide(order) ==
    [k \in 1 .. Len(order) |-> [price |-> order[k], qty |-> 1 + (order[k] % MaxQty)]]

\* The price sets of the snapshot sides: empty, partial, exactly BOOK_DEPTH
\* levels and more than BOOK_DEPTH levels.
SideSets == {{}, {2, 4}, 1 .. BOOK_DEPTH, 1 .. (BOOK_DEPTH + 1)}

\* Snapshots as the exchange sends them: bids descending, asks ascending,
\* positive prices and quantities.  The side the run does not update gets
\* one two-level book.
BookSnapshots(isBid) ==
    {[bids |-> SnapshotSide(Descending(b)), asks |-> SnapshotSide(Ascending(a))] :
        b \in (IF isBid THEN SideSets ELSE {{1, 2}}),
        a \in (IF isBid THEN {{5, 6}} ELSE SideSets)}

BookInit ==
    /\ bookMgr = NewManager(1)
    /\ \E isBid \in BOOLEAN : ev = [kind |-> "init", isBid |-> isBid]
    /\ lastSent = [i \in {0} |-> EmptyQuote(i)]
    /\ fhSeqNo = 0
    /\ tpHandle = -1
    /\ running = TRUE
    /\ binanceReconnectAttempt = 0
    /\ pc = "book"
    /\ exchClock = 1
    /\ sent = <<>>
    /\ calls = <<>>
    /\ attempts = {}
    /\ fetches = {}
    /\ applied = {}
    /\ lastSeqSent = 0
    /\ resetSinceSent = FALSE

\* What the calls on the book store leave alone.
BookFrame ==
    UNCHANGED <<fhSeqNo, tpHandle, running, binanceReconnectAttempt, pc, exchClock,
                sent, calls, attempts, fetches, applied, lastSent, lastSeqSent,
                resetSinceSent>>

\* OrderBook::applyLevelUpdate of the single-symbol book (a vector of levels
\* per side): find_if for the price, erase / overwrite, or insert before the
\* first worse level and pop_back when the vector exceeds BOOK_DEPTH.
OrderBookLevelUpdate(side, update, isBid) ==
    LET it == MinOr({k \in 1 .. Len(side) : side[k].price = update.price},
                    Len(side) + 1)
        insertPos == MinOr({k \in 1 .. Len(side) :
                               IF isBid THEN update.price > side[k].price
                                        ELSE update.price < side[k].price},
                           Len(side) + 1)
        inserted == SubSeq(side, 1, insertPos - 1) \o <<update>>
                    \o SubSeq(side, insertPos, Len(side))
    IN IF update.qty = 0
       THEN IF it <= Len(side)
            THEN SubSeq(side, 1, it - 1) \o SubSeq(side, it + 1, Len(side))
            ELSE side
       ELSE IF it <= Len(side)
            THEN [side EXCEPT ![it].qty = update.qty]
            ELSE IF Len(inserted) > BOOK_DEPTH
                 THEN SubSeq(inserted, 1, Len(inserted) - 1)
                 ELSE inserted

\* The levels slot 0 holds on one side (qty > 0), as a delta would list them.
RECURSIVE heldFrom(_, _, _)
heldFrom(prices, qtys, l) ==
    IF l >= BOOK_DEPTH THEN <<>>
    ELSE (IF qtys[l] > 0 THEN <<[price |-> prices[l], qty |-> qtys[l]]>> ELSE <<>>)
         \o heldFrom(prices, qtys, l + 1)

HeldLevels(prices, qtys) == heldFrom(prices, qtys, 0)

\* applySnapshot(0, lastUpdateId, bids, asks).
BookSnapshot ==
    /\ \E s \in BookSnapshots(ev.isBid), id \in 1 .. MaxUpdateId :
         /\ bookMgr' = applySnapshot(bookMgr, 0, id, s.bids, s.asks)
         /\ ev' = [kind |-> "applySnapshot", isBid |-> ev.isBid,
                   lastUpdateId |-> id, bids |-> s.bids, asks |-> s.asks]
    /\ BookFrame

\* applyLevelUpdate(0, isBid, update), qty 0 being a delete.
BookLevelUpdate ==
    /\ \E p \in Prices, q \in 0 .. MaxQty :
         /\ bookMgr' = applyLevelUpdate(bookMgr, 0, ev.isBid, [price |-> p, qty |-> q])
         /\ ev' = [kind |-> "applyLevelUpdate", isBid |-> ev.isBid,
                   update |-> [price |-> p, qty |-> q]]
    /\ BookFrame

\* reset(0).
BookReset ==
    /\ bookMgr' = reset(bookMgr, 0)
    /\ ev' = [kind |-> "reset", isBid |-> ev.isBid]
    /\ BookFrame

\* applyDelta(0, U, u, ...) with the delta that continues the slot's sequence
\* (U = u = lastUpdateIds_[0] + 1) and carries one level update.
BookDelta ==
    /\ bookMgr.states[0] \in {"SYNCING", "VALID"}
    /\ bookMgr.lastUpdateIds[0] < MaxUpdateId
    /\ \E p \in Prices, q \in 0 .. MaxQty, id \in {bookMgr.lastUpdateIds[0] + 1} :
         /\ bookMgr' = applyDelta(bookMgr, 0, id, id,
                                  IF ev.isBid THEN <<[price |-> p, qty |-> q]>> ELSE <<>>,
                                  IF ev.isBid THEN <<>> ELSE <<[price |-> p, qty |-> q]>>,
                                  bookMgr.exchEventTimeMs[0]).mgr
         /\ ev' = [kind |-> "applyDelta", isBid |-> ev.isBid,
                   update |-> [price |-> p, qty |-> q]]
    /\ BookFrame

\* handleDelta(0, delta) on the slot as the constructor or reset() left it:
\* the delta is buffered, the snapshot fetched and applied and the buffer
\* replayed.  The delta carries one level update and either ends at the
\* snapshot's id (stale) or continues it.
BookRequestSnapshot ==
    /\ ev.kind \in {"init", "reset"}
    /\ bookMgr.states[0] = "INIT" /\ needsSnapshot(bookMgr, 0)
    /\ \E s \in BookSnapshots(ev.isBid), id \in 1 .. MaxUpdateId,
          p \in Prices, q \in 0 .. MaxQty, ahead \in {0, 1} :
       \E U \in {id + ahead} :
         /\ bookMgr' = HandleInit(Begin(bookMgr, <<>>), 0,
                                  [firstUpdateId |-> U, finalUpdateId |-> U,
                                   eventTimeMs |-> bookMgr.exchEventTimeMs[0],
                                   bids |-> IF ev.isBid THEN <<[price |-> p, qty |-> q]>>
                                                        ELSE <<>>,
                                   asks |-> IF ev.isBid THEN <<>>
                                                        ELSE <<[price |-> p, qty |-> q]>>],
                                  [success |-> TRUE, lastUpdateId |-> id,
                                   bids |-> s.bids, asks |-> s.asks]).mgr
         /\ ev' = [kind |-> "requestSnapshot", isBid |-> ev.isBid,
                   lastUpdateId |-> id, bids |-> s.bids, asks |-> s.asks,
                   firstUpdateId |-> U, update |-> [price |-> p, qty |-> q]]
    /\ BookFrame

\* applyDelta(0, U, u, ...) on the VALID slot with the delta that continues
\* its sequence and sets every level it holds, on both sides, to the
\* quantity the level already has.
BookEcho ==
    /\ bookMgr.states[0] = "VALID"
    /\ bookMgr.lastUpdateIds[0] <= MaxUpdateId
    /\ \E id \in {bookMgr.lastUpdateIds[0] + 1} :
         bookMgr' = applyDelta(bookMgr, 0, id, id,
                               HeldLevels(bookMgr.bidPrices, bookMgr.bidQtys),
                               HeldLevels(bookMgr.askPrices, bookMgr.askQtys),
                               bookMgr.exchEventTimeMs[0]).mgr
    /\ ev' = [kind |-> "echo", isBid |-> ev.isBid]
    /\ BookFrame

BookNext ==
    \/ BookSnapshot
    \/ BookLevelUpdate
    \/ BookDelta
    \/ BookEcho
    \/ BookRequestSnapshot
    \/ BookReset

BookSpec == BookInit /\ [][BookNext]_vars

(***************************************************************************)
(* The reconnect loop on its own: run(), connectToTP() and the sleep loop   *)
(* of sleepWithBackoff() in its 100 ms increments, with the exchange and    *)
(* the sink failing at will and stop() arriving at any point.  pc is        *)
(* "start" (top of connectToTP's loop), "connect" (top of run()'s loop),    *)
(* "resolving" (runWebSocketLoop, in resolver.resolve), "loop" (the message *)
(* loop, blocked in read), "sleepTest" (the test of the sleep loop), "sleeping" (inside      *)
(* sleep_for) and "done" (run() has returned).  ev holds the running call   *)
(* of sleepWithBackoff: its caller (where), its argument (attempt), the     *)
(* delay it computed and the time slept so far; failed counts the upstream  *)
(* failures since the last handshake, tpAttempt is connectToTP's local      *)
(* attempt, sleptAtStop the time slept when stop() arrived (-1: not during  *)
(* a sleep) and opened the connections started since stop().               *)
(***************************************************************************)
CHECK_INTERVAL_MS == 100

BackoffInit ==
    /\ bookMgr = NewManager(1)
    /\ ev = [kind |-> "init", where |-> "tp", attempt |-> 0, delay |-> 0,
             slept |-> 0, failed |-> 0, tpAttempt |-> 0, sleptAtStop |-> -1,
             opened |-> 0]
    /\ lastSent = [i \in {0} |-> EmptyQuote(i)]
    /\ fhSeqNo = 0
    /\ tpHandle = -1
    /\ running = TRUE
    /\ binanceReconnectAttempt = 0
    /\ pc = "start"
    /\ exchClock = 1
    /\ sent = <<>>
    /\ calls = <<>>
    /\ attempts = {}
    /\ fetches = {}
    /\ applied = {}
    /\ lastSeqSent = 0
    /\ resetSinceSent = FALSE

\* What the reconnect loop leaves alone.
BackoffFrame ==
    UNCHANGED <<bookMgr, fhSeqNo, exchClock, sent, calls, attempts, fetches,
                applied, lastSent, lastSeqSent, resetSinceSent>>

\* The entry of sleepWithBackoff(attempt): the delay is computed, slept = 0.
EnterSleep(where, attempt) ==
    [ev EXCEPT !.kind = "sleep", !.where = where, !.attempt = attempt,
               !.delay = BackoffDelay(attempt), !.slept = 0]

\* connectToTP: khpu succeeds.
BackoffTpConnect ==
    /\ pc = "start"
    /\ running
    /\ tpHandle' = 1
    /\ pc' = "connect"
    /\ ev' = [ev EXCEPT !.kind = "connectToTP"]
    /\ UNCHANGED <<running, binanceReconnectAttempt>>
    /\ BackoffFrame

\* connectToTP: khpu fails, sleepWithBackoff(attempt++).
BackoffTpFail ==
    /\ pc = "start"
    /\ running
    /\ ev.tpAttempt < MaxFailures
    /\ ev' = [EnterSleep("tp", ev.tpAttempt) EXCEPT !.tpAttempt = @ + 1]
    /\ pc' = "sleepTest"
    /\ UNCHANGED <<tpHandle, running, binanceReconnectAttempt>>
    /\ BackoffFrame

\* connectToTP: the loop test fails, it returns false and run() returns.
BackoffTpStopped ==
    /\ pc = "start"
    /\ ~running
    /\ pc' = "done"
    /\ ev' = [ev EXCEPT !.kind = "return"]
    /\ UNCHANGED <<tpHandle, running, binanceReconnectAttempt>>
    /\ BackoffFrame

\* run(): the loop test holds and runWebSocketLoop is entered: the books
\* are reset and resolver.resolve is called.
BackoffWsResolve ==
    /\ pc = "connect"
    /\ running
    /\ bookMgr' = resetAll(bookMgr)
    /\ pc' = "resolving"
    /\ ev' = [ev EXCEPT !.kind = "resolve"]
    /\ UNCHANGED <<tpHandle, running, binanceReconnectAttempt, fhSeqNo, exchClock,
                   sent, calls, attempts, fetches, applied, lastSent, lastSeqSent,
                   resetSinceSent>>

\* runWebSocketLoop: resolve has returned; net::connect, the TLS and the
\* WebSocket handshake succeed (none of them reads running_); the counter is
\* reset and the message loop entered.
BackoffWsConnect ==
    /\ pc = "resolving"
    /\ binanceReconnectAttempt' = 0
    /\ pc' = "loop"
    /\ ev' = [ev EXCEPT !.kind = "handshake", !.failed = 0,
                        !.opened = IF running THEN 0 ELSE @ + 1]
    /\ UNCHANGED <<tpHandle, running>>
    /\ BackoffFrame

\* runWebSocketLoop throws (resolve, the connection attempt or a read fails)
\* while running: run() calls sleepWithBackoff(binanceReconnectAttempt_++).
BackoffWsFail ==
    /\ pc \in {"resolving", "loop"}
    /\ running
    /\ binanceReconnectAttempt < MaxFailures
    /\ ev' = [EnterSleep("ws", binanceReconnectAttempt) EXCEPT !.failed = @ + 1]
    /\ binanceReconnectAttempt' = binanceReconnectAttempt + 1
    /\ pc' = "sleepTest"
    /\ UNCHANGED <<tpHandle, running>>
    /\ BackoffFrame

\* sleepWithBackoff: the loop test holds, sleep_for(100 ms) is entered.
BackoffSleepEnter ==
    /\ pc = "sleepTest"
    /\ ev.slept < ev.delay /\ running
    /\ pc' = "sleeping"
    /\ UNCHANGED <<ev, tpHandle, running, binanceReconnectAttempt>>
    /\ BackoffFrame

\* sleepWithBackoff: sleep_for returns, slept += checkIntervalMs.
BackoffSleepTick ==
    /\ pc = "sleeping"
    /\ ev' = [ev EXCEPT !.slept = @ + CHECK_INTERVAL_MS]
    /\ pc' = "sleepTest"
    /\ UNCHANGED <<tpHandle, running, binanceReconnectAttempt>>
    /\ BackoffFrame

\* sleepWithBackoff: the loop test fails, it returns running_.  Returning
\* true, the caller loops; returning false, connectToTP returns false and
\* run() returns, or run() breaks and closes the sink handle.
BackoffWake ==
    /\ pc = "sleepTest"
    /\ ~(ev.slept < ev.delay /\ running)
    /\ pc' = IF running
             THEN (IF ev.where = "tp" THEN "start" ELSE "connect")
             ELSE "done"
    /\ tpHandle' = IF ~running /\ ev.where = "ws" /\ tpHandle > 0
                   THEN -1 ELSE tpHandle
    /\ ev' = [ev EXCEPT !.kind = IF running THEN "wake" ELSE "return"]
    /\ UNCHANGED <<running, binanceReconnectAttempt>>
    /\ BackoffFrame

\* stop(), from the signal handler, at any point of run().
BackoffStop ==
    /\ pc # "done"
    /\ running
    /\ running' = FALSE
    /\ ev' = [ev EXCEPT !.sleptAtStop =
                            IF pc \in {"sleepTest", "sleeping"} THEN ev.slept ELSE -1]
    /\ UNCHANGED <<tpHandle, binanceReconnectAttempt, pc>>
    /\ BackoffFrame

\* run(): its loop test fails, or the blocking call of runWebSocketLoop
\* (resolve, read) returns or throws with running_ false and the loop test
\* fails next; the sink handle is closed.
BackoffShutdown ==
    /\ pc \in {"connect", "resolving", "loop"}
    /\ ~running
    /\ pc' = "done"
    /\ tpHandle' = IF tpHandle > 0 THEN -1 ELSE tpHandle
    /\ ev' = [ev EXCEPT !.kind = "return"]
    /\ UNCHANGED <<running, binanceReconnectAttempt>>
    /\ BackoffFrame

BackoffNext ==
    \/ BackoffTpConnect
    \/ BackoffTpFail
    \/ BackoffTpStopped
    \/ BackoffWsResolve
    \/ BackoffWsConnect
    \/ BackoffWsFail
    \/ BackoffSleepEnter
    \/ BackoffSleepTick
    \/ BackoffWake
    \/ BackoffStop
    \/ BackoffShutdown

BackoffSpec == BackoffInit /\ [][BackoffNext]_vars

(***************************************************************************)
(* The rebuild of one symbol.  The handler runs with one symbol and a sink  *)
(* that accepts every quote (any deltas, failing fetches, read failures and *)
(* reconnects) until, with                                                 *)
(* the slot in INIT, SYNCING or INVALID, the feed settles: from then on     *)
(* (pc = "rebuild") the symbol's deltas are contiguous (ev.next is the U of *)
(* the next one), every snapshot fetch succeeds with a lastUpdateId of at   *)
(* least U - 1, the sink accepts every quote, and there is no read failure  *)
(* and no stop().  pc becomes "rebuilt" when a valid quote has been sent.   *)
(***************************************************************************)
RebuildInit ==
    /\ bookMgr = NewManager(1)
    /\ lastSent = [i \in {0} |-> EmptyQuote(i)]
    /\ fhSeqNo = 0
    /\ tpHandle = -1
    /\ running = TRUE
    /\ binanceReconnectAttempt = 0
    /\ pc = "start"
    /\ exchClock = 1
    /\ ev = [kind |-> "init", sym |-> 0, pre |-> "INIT"]
    /\ sent = <<>>
    /\ calls = <<>>
    /\ attempts = {}
    /\ fetches = {}
    /\ applied = {}
    /\ lastSeqSent = 0
    /\ resetSinceSent = FALSE

\* One message of the loop before the feed settles: any delta of the symbol,
\* any outcome of the snapshot fetch; the sink accepts every quote.
RebuildAnyDelta ==
    /\ pc = "loop" /\ running
    /\ \E dt \in ClockSteps, r \in DeltaIds, payload \in Payloads(1) :
         \E m0 \in {Advance(bookMgr, dt)},
            delta \in {[firstUpdateId |-> r[1], finalUpdateId |-> r[2],
                        eventTimeMs |-> exchClock,
                        bids |-> payload.bids, asks |-> payload.asks]} :
           \E snapshot \in (IF needsSnapshot(m0, 0)
                            THEN SnapshotResults(1)
                            ELSE {NoSnapshot}) :
             \E h \in {HandleMessage(m0, <<>>, 0, delta, snapshot)} :
                /\ h.fhSeqNo <= MaxSeqNo
                /\ Commit(h, [kind |-> "delta", sym |-> 0,
                              pre |-> bookMgr.states[0],
                              due |-> {i \in Symbols : TimeoutPublishNeeded(m0, i)}])
    /\ UNCHANGED <<binanceReconnectAttempt, pc, exchClock>>

\* The feed settles: the next delta of the symbol starts at U.
RebuildSettle ==
    /\ pc = "loop" /\ running
    /\ bookMgr.states[0] \in {"INIT", "SYNCING", "INVALID"}
    /\ \E U \in 1 .. MaxUpdateId :
         ev' = [kind |-> "settle", sym |-> 0, pre |-> bookMgr.states[0],
                from |-> bookMgr.states[0], next |-> U]
    /\ pc' = "rebuild"
    /\ sent' = <<>>
    /\ calls' = <<>>
    /\ attempts' = {}
    /\ fetches' = {}
    /\ applied' = {}
    /\ UNCHANGED <<bookMgr, fhSeqNo, tpHandle, running, binanceReconnectAttempt,
                   exchClock, lastSent, lastSeqSent, resetSinceSent>>

\* ws.read returns one message of the settled feed: the delta [ev.next, u] of
\* the symbol, dt ms after the previous message; a snapshot fetched for it
\* will have lastUpdateId = U - 1 + ahead.
RebuildRead ==
    /\ pc = "rebuild"
    /\ ev.next <= MaxRebuildId
    /\ \E dt \in ClockSteps, u \in ev.next .. (ev.next + 1),
          payload \in Payloads(1), ahead \in 0 .. MaxAhead :
         ev' = [kind |-> "read", sym |-> 0, pre |-> bookMgr.states[0],
                from |-> ev.from, next |-> ev.next,
                msg |-> [dt |-> dt, u |-> u, payload |-> payload, ahead |-> ahead]]
    /\ pc' = "rebuildMsg"
    /\ sent' = <<>>
    /\ calls' = <<>>
    /\ attempts' = {}
    /\ fetches' = {}
    /\ applied' = {}
    /\ UNCHANGED <<bookMgr, fhSeqNo, tpHandle, running, binanceReconnectAttempt,
                   exchClock, lastSent, lastSeqSent, resetSinceSent>>

\* processMessage and checkPublishTimeouts for the message read.
RebuildDelta ==
    /\ pc = "rebuildMsg"
    /\ \E m0 \in {Advance(bookMgr, ev.msg.dt)},
          delta \in {[firstUpdateId |-> ev.next, finalUpdateId |-> ev.msg.u,
                      eventTimeMs |-> exchClock,
                      bids |-> ev.msg.payload.bids, asks |-> ev.msg.payload.asks]} :
         \E snapshot \in {IF needsSnapshot(m0, 0)
                          THEN SnapshotAt(ev.next - 1 + ev.msg.ahead)
                          ELSE NoSnapshot} :
           \E h \in {HandleMessage(m0, <<>>, 0, delta, snapshot)} :
              /\ Commit(h, [kind |-> "delta", sym |-> 0,
                            pre |-> bookMgr.states[0],
                            due |-> {i \in Symbols : TimeoutPublishNeeded(m0, i)},
                            from |-> ev.from, next |-> ev.msg.u + 1])
              /\ pc' = IF \E k \in DOMAIN h.sent : h.sent[k].quote.isValid
                       THEN "rebuilt" ELSE "rebuild"
    /\ UNCHANGED <<binanceReconnectAttempt, exchClock>>

RebuildNext ==
    \/ ConnectToTP
    \/ WsConnect
    \/ ReadFailure
    \/ RebuildAnyDelta
    \/ RebuildSettle
    \/ RebuildRead
    \/ RebuildDelta

\* The step that leaves "rebuildMsg".  RebuildDelta is the only step there
\* and has no guard but pc: the loop goes from ws.read to processMessage
\* unconditionally.
RebuildProcessed == pc = "rebuildMsg" /\ pc' \in {"rebuild", "rebuilt"}

\* Deltas keep arriving once the feed has settled, and the loop processes
\* every message it has read.
RebuildSpec ==
    /\ RebuildInit /\ [][RebuildNext]_vars
    /\ WF_vars(RebuildRead) /\ WF_pc(RebuildProcessed)

(***************************************************************************)
(* Properties.  They read the record of the step just taken: ev (the kind  *)
(* of step, the delta's symbol, that slot's state before and the symbols   *)
(* getTimeoutPublishNeeded would have named on arrival), sent (the         *)
(* quotes handed to publishL5, in order), calls (the applyDelta calls, in  *)
(* order), attempts, fetches and applied.                                  *)
(***************************************************************************)

\* The quotes of the step that are for symbol i, as indices of sent.
SentFor(i) == {k \in DOMAIN sent : sent[k].quote.sym = i}

\* The invalidation quotes of the step for symbol i.
InvalidSentFor(i) == {k \in SentFor(i) : ~sent[k].quote.isValid}

\* An applyDelta call that applied its delta and left the slot VALID.
Accepted(c) ==
    c.ret /\ c.post = "VALID" /\ c.lastUpdateIdAfter = c.finalUpdateId

\* U <= snapshot_update_id + 1 <= u.
InWindow(c) ==
    /\ c.firstUpdateId <= c.snapshotUpdateId + 1
    /\ c.snapshotUpdateId + 1 <= c.finalUpdateId

\* U == last_update_id + 1.
InSequence(c) == c.firstUpdateId = c.lastUpdateId + 1

\* The step processed a delta for a slot that was VALID, and the delta
\* failed U == last_update_id + 1.
GapInValid ==
    /\ ev.kind = "delta" /\ ev.pre = "VALID"
    /\ calls # <<>> /\ ~InSequence(calls[1])

\* C1: every quote handed to the sink with is_valid = true was extracted
\* while its slot was VALID, and on no path (maybePublish, heartbeat,
\* publishInvalid) does a quote for a slot that is not VALID carry the valid
\* label: is_valid holds exactly when the slot was VALID at extraction.
C1_ValidLabelOnlyWhenValid ==
    \A k \in DOMAIN sent :
        /\ sent[k].quote.isValid <=> sent[k].stateAt = "VALID"
        /\ sent[k].path = "publishInvalid" => ~sent[k].quote.isValid

\* C1 witness: publishInvalid sent a quote for a symbol whose previous quote
\* was sent with the valid label (both kinds of quote have been sent).
C1_Witness ==
    \E k \in DOMAIN sent :
        /\ sent[k].path = "publishInvalid"
        /\ sent[k].prev.isValid

\* C2: when a live delta for a VALID slot fails U == last_update_id + 1,
\* exactly one quote with is_valid = false is sent for that symbol while the
\* delta is processed, and it comes before any other quote for the symbol.
C2_GapEmitsOneInvalidation ==
    GapInValid =>
        /\ Cardinality(InvalidSentFor(ev.sym)) = 1
        /\ \A k \in SentFor(ev.sym) : \A j \in InvalidSentFor(ev.sym) : j <= k

\* C2 witness: a gap in VALID happened and its invalidation quote was sent.
C2_Witness ==
    /\ GapInValid
    /\ InvalidSentFor(ev.sym) # {}

\* C3, one step: (a) an applyDelta call on a SYNCING slot accepts the delta
\* iff U <= snapshot_update_id + 1 <= u, and a delta it does not accept
\* leaves the ladders alone; (b) a call that makes a slot VALID found it
\* SYNCING; (c) a slot that becomes VALID does so by such a call; (d) a slot
\* becomes SYNCING only by a snapshot applied in the same step, so no slot is
\* VALID without a snapshot applied since its last reset.
C3_Step ==
    /\ \A k \in DOMAIN calls' :
         calls'[k].pre = "SYNCING" =>
            /\ Accepted(calls'[k]) <=> InWindow(calls'[k])
            /\ ~Accepted(calls'[k]) => calls'[k].untouched
    /\ \A k \in DOMAIN calls' :
         (calls'[k].post = "VALID" /\ calls'[k].pre # "VALID") =>
            /\ calls'[k].pre = "SYNCING"
            /\ bookMgr.states[calls'[k].sym] = "SYNCING" \/ calls'[k].sym \in applied'
    /\ \A i \in Symbols :
         (bookMgr.states[i] # "VALID" /\ bookMgr'.states[i] = "VALID") =>
            \E k \in DOMAIN calls' :
               calls'[k].sym = i /\ calls'[k].pre = "SYNCING" /\ Accepted(calls'[k])
    /\ \A i \in Symbols :
         (bookMgr.states[i] # "SYNCING" /\ bookMgr'.states[i] = "SYNCING") =>
            i \in applied'

\* C3: in SYNCING a delta [U, u] is accepted (applied, slot VALID) iff
\* U <= snapshot_update_id + 1 <= u, and that is the only way a slot becomes
\* VALID: never from INIT or INVALID, never without a snapshot applied since
\* the last reset.
C3_SyncingAcceptance == [][C3_Step]_vars

\* C3 witness: a slot that was SYNCING before the step accepted a live delta
\* whose range starts below the snapshot's next id.
C3_Witness ==
    /\ ev.kind = "delta" /\ ev.pre = "SYNCING"
    /\ calls # <<>> /\ Accepted(calls[1])
    /\ calls[1].firstUpdateId < calls[1].snapshotUpdateId + 1
    /\ bookMgr.states[ev.sym] = "VALID"

C5_FetchErrorEmitsInvalidation ==
    \A i \in fetches \ applied :
        /\ bookMgr.states[i] = "INVALID"
        /\ InvalidSentFor(i) # {}

\* A replayed delta met a snapshot that is too old (U > snapshot_update_id + 1).
ReplayTooOld(i) ==
    \E k \in DOMAIN calls :
        /\ calls[k].sym = i /\ calls[k].from = "replay"
        /\ calls[k].firstUpdateId > calls[k].snapshotUpdateId + 1

\* The slot of symbol i is as reset() leaves it.
IsReset(i) ==
    /\ bookMgr.states[i] = "INIT"
    /\ bookMgr.deltaBuffers[i] = <<>>
    /\ ~bookMgr.snapshotRequested[i]
    /\ \A l \in Levels :
         /\ bookMgr.bidPrices[i * BOOK_DEPTH + l] = 0
         /\ bookMgr.bidQtys[i * BOOK_DEPTH + l] = 0
         /\ bookMgr.askPrices[i * BOOK_DEPTH + l] = 0
         /\ bookMgr.askQtys[i * BOOK_DEPTH + l] = 0

\* C6: when a replayed delta has U > snapshot_update_id + 1, an invalidation
\* quote is sent and the slot is reset (INIT, ladders zeroed, buffer empty,
\* snapshot_requested false) by the end of the step, before the next
\* inbound event.
C6_ReplayTooOldInvalidatesAndResets ==
    \A i \in Symbols :
        ReplayTooOld(i) => (InvalidSentFor(i) # {} /\ IsReset(i))

\* C7: a delta that arrives while its slot is INVALID re-arms the fetch: the
\* slot is reset, the delta is buffered and a snapshot is requested for the
\* symbol while that delta is processed.
C7_DeltaInInvalidRearmsFetch ==
    (ev.kind = "delta" /\ ev.pre = "INVALID") => ev.sym \in fetches

\* C8: whenever a call makes a slot VALID (live delta in SYNCING or replayed
\* buffered delta), maybePublish is called for that symbol in the same step.
C8_ValidTransitionAttemptsPublish ==
    \A k \in DOMAIN calls :
        (calls[k].pre = "SYNCING" /\ calls[k].post = "VALID") =>
            calls[k].sym \in attempts

\* C9: the sequence number of every quote sent (valid, invalidation,
\* heartbeat; any symbol) is greater than that of the quote sent before it,
\* hence than that of the previous quote of its symbol; neither reset() nor
\* resetAll() on reconnect takes the counter back.
C9_SeqNoStrictlyIncreases ==
    /\ \A k \in DOMAIN sent :
         /\ sent[k].quote.fhSeqNo > sent[k].prevSeq
         /\ sent[k].quote.fhSeqNo > sent[k].prev.fhSeqNo
    /\ lastSeqSent <= fhSeqNo

\* C9 witness: an invalidation quote sent as the first quote after an
\* upstream reconnect, the symbol having been published before.
C9_Witness ==
    \E k \in DOMAIN sent :
        /\ sent[k].afterReset
        /\ sent[k].prev.fhSeqNo > 0
        /\ sent[k].prevSeq > 0

\* C10: for one symbol, exch_event_time_ms does not decrease from one quote
\* sent to the next (the feed's event times being non-decreasing),
\* invalidation quotes, resets and re-synchronisation included.
C10_EventTimeNonDecreasing ==
    \A k \in DOMAIN sent :
        sent[k].prev.fhSeqNo > 0 =>
            sent[k].quote.exchEventTimeMs >= sent[k].prev.exchEventTimeMs

\* The ladder of one side of slot i, as levels 0 .. BOOK_DEPTH - 1.
Ladder(i, isBid) ==
    [l \in Levels |->
        IF isBid
        THEN [price |-> bookMgr.bidPrices[i * BOOK_DEPTH + l],
              qty |-> bookMgr.bidQtys[i * BOOK_DEPTH + l]]
        ELSE [price |-> bookMgr.askPrices[i * BOOK_DEPTH + l],
              qty |-> bookMgr.askQtys[i * BOOK_DEPTH + l]]]

\* A slot of a ladder that does not hold the sentinel (0.0, 0.0).
Occupied(lvl) == lvl.price # 0 \/ lvl.qty # 0

\* The number of occupied slots of a ladder.
Depth(lad) == Cardinality({l \in Levels : Occupied(lad[l])})

\* C11: after any sequence of applySnapshot (exchange-sorted sides, positive
\* prices and quantities), applyLevelUpdate (qty >= 0) and reset calls, the
\* bid ladder is strictly descending and the ask ladder strictly ascending
\* in price over its occupied slots, so no two levels of a side share a price.
C11_LaddersStrictlySorted ==
    \A i \in Symbols : \A l, k \in Levels :
        (l < k) =>
            /\ (Occupied(Ladder(i, TRUE)[l]) /\ Occupied(Ladder(i, TRUE)[k])) =>
                  Ladder(i, TRUE)[l].price > Ladder(i, TRUE)[k].price
            /\ (Occupied(Ladder(i, FALSE)[l]) /\ Occupied(Ladder(i, FALSE)[k])) =>
                  Ladder(i, FALSE)[l].price < Ladder(i, FALSE)[k].price

\* C11 witness: a delta with a level update of qty > 0 has just been applied
\* to a VALID slot whose side holds BOOK_DEPTH levels, the update's price
\* sitting below the best level.
C11_Witness ==
    /\ ev.kind = "applyDelta" /\ ev.update.qty > 0
    /\ bookMgr.states[0] = "VALID"
    /\ Depth(Ladder(0, ev.isBid)) = BOOK_DEPTH
    /\ \E l \in Levels \ {0} : Ladder(0, ev.isBid)[l].price = ev.update.price

\* C12: ladders are dense after any sequence of snapshots, inserts, updates,
\* deletes, clears and resets: no slot holding the sentinel (0, 0) precedes
\* an occupied slot, on either side of any slot.
C12_LaddersDense ==
    \A i \in Symbols : \A l, k \in Levels :
        (l < k) =>
            /\ Occupied(Ladder(i, TRUE)[k]) => Occupied(Ladder(i, TRUE)[l])
            /\ Occupied(Ladder(i, FALSE)[k]) => Occupied(Ladder(i, FALSE)[l])

\* C12 witness: a delete has just been applied and the side still holds
\* levels on both sides of the deleted price (a delete from the middle).
C12_Witness ==
    /\ ev.kind = "applyLevelUpdate" /\ ev.update.qty = 0
    /\ Depth(Ladder(0, ev.isBid)) = BOOK_DEPTH - 1
    /\ \E l, k \in Levels :
         /\ Occupied(Ladder(0, ev.isBid)[l]) /\ Occupied(Ladder(0, ev.isBid)[k])
         /\ Ladder(0, ev.isBid)[l].price < ev.update.price
         /\ ev.update.price < Ladder(0, ev.isBid)[k].price

\* C13: after the heartbeat sweep that follows each inbound message, every
\* VALID slot whose last_publish_time is at least PUBLISH_TIMEOUT_MS old has
\* been emitted and recorded (recording restarts its publish clock), whether
\* or not the slot was ever published before.
C13_SweepEmitsEveryStaleValidSlot ==
    (ev.kind \in {"delta", "ignored"}) =>
        \A i \in Symbols :
            bookMgr.states[i] = "VALID" => bookMgr.elapsed[i] < PUBLISH_TIMEOUT_MS

\* The answer of the first rule of the publish policy that matches quote q
\* of slot i in manager m.
FirstMatchingRule(m, i, q) ==
    LET last == m.lastPublished[i]
        rules == <<[when |-> ~m.hasPublished[i], say |-> TRUE],
                   [when |-> q.isValid # last.isValid, say |-> TRUE],
                   [when |-> ~q.isValid, say |-> FALSE],
                   [when |-> \E l \in Levels :
                                \/ q.bidPrices[l] # last.bidPrices[l]
                                \/ q.bidQtys[l] # last.bidQtys[l]
                                \/ q.askPrices[l] # last.askPrices[l]
                                \/ q.askQtys[l] # last.askQtys[l],
                    say |-> TRUE],
                   [when |-> m.elapsed[i] >= PUBLISH_TIMEOUT_MS, say |-> TRUE],
                   [when |-> TRUE, say |-> FALSE]>>
    IN rules[MinOr({k \in DOMAIN rules : rules[k].when}, Len(rules))].say

\* Quotes of slot i put to the policy: the slot's current quote, the
\* synthetic invalid quote, the last published quote, and each of these
\* with one quantity changed or the validity flipped.
PolicyQuotes(m, i) ==
    LET base == {getL5(m, i, 0), InvalidQuote(i, 0), m.lastPublished[i]}
    IN base
       \cup {[q EXCEPT !.isValid = ~@] : q \in base}
       \cup {[q EXCEPT !.askQtys[BOOK_DEPTH - 1] = @ + 1] : q \in base}
       \cup {[q EXCEPT !.bidPrices[0] = @ + 1] : q \in base}

\* shouldPublish agrees with the first matching rule on every quote put to
\* it, at every age of the last publish the next message can see.
shouldPublishAgrees ==
    \A i \in Symbols, dt \in ClockSteps :
        \A q \in PolicyQuotes(bookMgr, i) :
            shouldPublish(Advance(bookMgr, dt), i, q)
                = FirstMatchingRule(Advance(bookMgr, dt), i, q)

\* C14: shouldPublish(i, q) returns the answer of the first matching rule, in
\* the order: never published -> yes; validity differs from the last
\* published quote -> yes; q invalid -> no; a price or quantity field differs
\* -> yes; PUBLISH_TIMEOUT_MS since the last publish -> yes; otherwise no.
\* It changes no publisher state: the has-published flag and the last
\* published quote of a slot are those of the last quote actually sent for it,
\* whatever number of publish attempts were answered no since.
C14_ShouldPublishFirstMatchingRule ==
    /\ shouldPublishAgrees
    /\ \A i \in Symbols :
         /\ bookMgr.hasPublished[i] <=> (lastSent[i].fhSeqNo > 0)
         /\ bookMgr.hasPublished[i] => bookMgr.lastPublished[i] = lastSent[i]

\* C14 witness: maybePublish has sent a valid quote whose ladders equal those
\* of the valid quote published before it for the symbol: of the six rules
\* only the timeout rule says yes to it.
C14_Witness ==
    \E k \in DOMAIN sent :
        /\ sent[k].path = "maybePublish"
        /\ sent[k].prev.fhSeqNo > 0 /\ sent[k].prev.isValid
        /\ samePricesAs(sent[k].quote, sent[k].prev)

\* C15: every emitted quote with isValid = false carries zero in all its
\* price and quantity fields: no non-empty ladder is published as invalid.
C15_InvalidQuoteCarriesZeroLadders ==
    \A k \in DOMAIN sent :
        ~sent[k].quote.isValid =>
            \A l \in Levels :
                /\ sent[k].quote.bidPrices[l] = 0 /\ sent[k].quote.bidQtys[l] = 0
                /\ sent[k].quote.askPrices[l] = 0 /\ sent[k].quote.askQtys[l] = 0

\* C15 witness: an invalid quote is emitted for a symbol whose quote before
\* it was valid and carried a non-empty ladder.
C15_Witness ==
    \E k \in DOMAIN sent :
        /\ ~sent[k].quote.isValid
        /\ sent[k].prev.isValid
        /\ \E l \in Levels : sent[k].prev.bidQtys[l] > 0 \/ sent[k].prev.askQtys[l] > 0

\* The slot of symbol i is reset and resumes from no earlier update id.
IsFresh(i) ==
    /\ IsReset(i)
    /\ bookMgr.lastUpdateIds[i] = 0
    /\ bookMgr.snapshotUpdateIds[i] = 0

\* C16 for one step: the step that opens a connection leaves every slot
\* fresh, and no step other than the processing of a delta takes a slot out
\* of that condition.
C16_Step ==
    /\ ev'.kind = "wsConnect" => \A i \in Symbols : IsFresh(i)'
    /\ ((\A i \in Symbols : IsFresh(i)) /\ ev'.kind # "delta")
         => \A i \in Symbols : IsFresh(i)'

\* C16: after an upstream read failure, before any delta of the new
\* connection is processed, every slot (whatever its state before) is INIT
\* with all-zero ladders, an empty delta buffer, snapshotRequested false and
\* lastUpdateId = snapshotUpdateId = 0.
C16_ReconnectResetsEverySlot == [][C16_Step]_vars

\* C16 witness: a connection has just been opened after an earlier one on
\* which a valid quote with a non-empty ladder was published.
C16_Witness ==
    /\ ev.kind = "wsConnect"
    /\ \E i \in Symbols :
         /\ lastSent[i].fhSeqNo > 0 /\ lastSent[i].isValid
         /\ \E l \in Levels : lastSent[i].bidQtys[l] > 0 \/ lastSent[i].askQtys[l] > 0

SlotOf(m, j) ==
    [bidPrices |-> SlotsOf(m.bidPrices, j), bidQtys |-> SlotsOf(m.bidQtys, j),
     askPrices |-> SlotsOf(m.askPrices, j), askQtys |-> SlotsOf(m.askQtys, j),
     state |-> m.states[j],
     lastUpdateId |-> m.lastUpdateIds[j],
     snapshotUpdateId |-> m.snapshotUpdateIds[j],
     exchEventTimeMs |-> m.exchEventTimeMs[j],
     deltaBuffer |-> m.deltaBuffers[j],
     snapshotRequested |-> m.snapshotRequested[j]]

\* C18 for one step: a message carrying a delta of symbol i leaves the slot
\* of every other symbol as it was.
C18_Step ==
    ev'.kind = "delta" =>
        \A j \in Symbols \ {ev'.sym} : SlotOf(bookMgr', j) = SlotOf(bookMgr, j)

\* C18: processing a delta for symbol i (snapshot application, buffered
\* replay, gap invalidation and reset of i included) leaves the ladders,
\* state, lastUpdateId, snapshotUpdateId, exchEventTimeMs, delta buffer and
\* snapshotRequested flag of every other symbol unchanged.
C18_DeltaLeavesOtherSymbolsUnchanged == [][C18_Step]_vars

\* C18 witness: a gap in the deltas of symbol 1 has just invalidated and
\* reset its slot while the slot of symbol 0 is VALID with a non-empty ladder.
C18_Witness ==
    /\ bookMgr.numSymbols = 2
    /\ ev.kind = "delta" /\ ev.sym = 1 /\ ev.pre = "VALID"
    /\ bookMgr.states[1] = "INIT"
    /\ bookMgr.states[0] = "VALID"
    /\ \E l \in Levels : bookMgr.bidQtys[l] > 0 \/ bookMgr.askQtys[l] > 0

\* A sequence of at most BOOK_DEPTH levels as a ladder: the levels in order,
\* then the sentinel (0, 0).
Pad(levels) ==
    [l \in Levels |-> IF l < Len(levels) THEN levels[l + 1]
                      ELSE [price |-> 0, qty |-> 0]]

\* The first min(BOOK_DEPTH, n) levels of an input side, in input order.
TopOf(side) == Pad(SubSeq(side, 1, Min(BOOK_DEPTH, Len(side))))

\* The occupied levels of a ladder, in slot order.
LevelsOf(lad) == [k \in 1 .. Depth(lad) |-> lad[k - 1]]

\* What a level update is to do to the levels of a side: overwrite the
\* quantity of the level at that price or remove it (qty 0); otherwise insert
\* at the rank given by the number of strictly better levels, dropping what
\* falls off slot BOOK_DEPTH, or discard when that rank is BOOK_DEPTH.
ExpectedLevels(levels, isBid, update) ==
    LET at == {k \in 1 .. Len(levels) : levels[k].price = update.price}
        rank == Cardinality({k \in 1 .. Len(levels) :
                                IF isBid THEN levels[k].price > update.price
                                         ELSE levels[k].price < update.price})
        longer == SubSeq(levels, 1, rank) \o <<update>>
                  \o SubSeq(levels, rank + 1, Len(levels))
    IN IF at # {}
       THEN IF update.qty = 0
            THEN [k \in 1 .. (Len(levels) - 1) |->
                     IF k < MinOr(at, 0) THEN levels[k] ELSE levels[k + 1]]
            ELSE [k \in 1 .. Len(levels) |->
                     IF k \in at THEN [price |-> levels[k].price, qty |-> update.qty]
                     ELSE levels[k]]
       ELSE IF update.qty = 0 \/ rank >= BOOK_DEPTH THEN levels
       ELSE SubSeq(longer, 1, Min(BOOK_DEPTH, Len(longer)))

\* C19 for one step.  applySnapshot leaves, on each side, the first
\* min(BOOK_DEPTH, n) input levels in input order and zeros after them, the
\* two ids at the snapshot's id and the slot SYNCING.  When handleDelta
\* fetches a snapshot for a buffered delta, the ladder is the snapshot's with
\* the delta's update applied on top of it if the delta continues the
\* snapshot (slot VALID), and the snapshot's alone if the delta is stale.
C19_Step ==
    /\ ev'.kind = "applySnapshot" =>
          /\ Ladder(0, TRUE)' = TopOf(ev'.bids)
          /\ Ladder(0, FALSE)' = TopOf(ev'.asks)
          /\ bookMgr'.snapshotUpdateIds[0] = ev'.lastUpdateId
          /\ bookMgr'.lastUpdateIds[0] = ev'.lastUpdateId
          /\ bookMgr'.states[0] = "SYNCING"
    /\ ev'.kind = "requestSnapshot" =>
          /\ bookMgr'.snapshotUpdateIds[0] = ev'.lastUpdateId
          /\ Ladder(0, ~ev.isBid)' =
                TopOf(IF ev'.isBid THEN ev'.asks ELSE ev'.bids)
          /\ Ladder(0, ev.isBid)' =
                IF ev'.firstUpdateId = ev'.lastUpdateId + 1
                THEN Pad(ExpectedLevels(
                            LevelsOf(TopOf(IF ev'.isBid THEN ev'.bids ELSE ev'.asks)),
                            ev'.isBid, ev'.update))
                ELSE TopOf(IF ev'.isBid THEN ev'.bids ELSE ev'.asks)

\* C19: applySnapshot(i, id, bids, asks) replaces both ladders of slot i by
\* the first min(BOOK_DEPTH, n) levels of each input side in input order, the
\* remaining slots zeroed (no level from before survives), sets
\* snapshotUpdateId = lastUpdateId = id and the state to SYNCING; its effect
\* on the ladders precedes that of any replayed or live delta.
C19_SnapshotReplacesLadders == [][C19_Step]_vars

\* C19 witness: a snapshot with more than BOOK_DEPTH levels on a side has
\* just been applied (only the first BOOK_DEPTH are kept).
C19_Witness ==
    /\ ev.kind = "applySnapshot"
    /\ Len(IF ev.isBid THEN ev.bids ELSE ev.asks) > BOOK_DEPTH
    /\ Depth(Ladder(0, ev.isBid)) = BOOK_DEPTH

\* C20 for one step: applyLevelUpdate with qty > 0 leaves the updated side
\* as the rule prescribes and the other side as it was, and the vector-based
\* OrderBook::applyLevelUpdate gives the same levels.
C20_Step ==
    (ev'.kind = "applyLevelUpdate" /\ ev'.update.qty > 0) =>
        /\ Ladder(0, ev.isBid)' =
              Pad(ExpectedLevels(LevelsOf(Ladder(0, ev.isBid)), ev.isBid, ev'.update))
        /\ Ladder(0, ~ev.isBid)' = Ladder(0, ~ev.isBid)
        /\ OrderBookLevelUpdate(LevelsOf(Ladder(0, ev.isBid)), ev'.update, ev.isBid)
              = ExpectedLevels(LevelsOf(Ladder(0, ev.isBid)), ev.isBid, ev'.update)

\* C20: applyLevelUpdate with qty > 0: if the price is already in the ladder
\* only that level's quantity is overwritten; otherwise the level is inserted
\* at its sorted rank, the levels at or after that rank shift down by one and
\* the level in slot BOOK_DEPTH falls off; if the rank is >= BOOK_DEPTH (the
\* price is worse than all levels of a full ladder) the update is discarded
\* and the ladder is unchanged.
C20_LevelUpdateInsertsAtRank == [][C20_Step]_vars

\* C20 witness: an update with qty > 0 has just been applied to a full
\* ladder that does not hold its price afterwards: its rank was BOOK_DEPTH
\* and it was discarded.
C20_Witness ==
    /\ ev.kind = "applyLevelUpdate" /\ ev.update.qty > 0
    /\ Depth(Ladder(0, ev.isBid)) = BOOK_DEPTH
    /\ \A l \in Levels : Ladder(0, ev.isBid)[l].price # ev.update.price

\* C21 for one step: a delete (qty 0) of a price held at slot k keeps the
\* slots before k, moves each later slot up by one and clears the last slot;
\* a delete of an absent price changes nothing; the other side is untouched;
\* and the same delete applied once more changes nothing.
C21_Step ==
    (ev'.kind = "applyLevelUpdate" /\ ev'.update.qty = 0) =>
        LET before == Ladder(0, ev.isBid)
            at == {k \in Levels : Occupied(before[k])
                                  /\ before[k].price = ev'.update.price}
        IN /\ at = {} => Ladder(0, ev.isBid)' = before
           /\ \A k \in at :
                 \A l \in Levels :
                    Ladder(0, ev.isBid)'[l] =
                        IF l < k THEN before[l]
                        ELSE IF l < BOOK_DEPTH - 1 THEN before[l + 1]
                        ELSE [price |-> 0, qty |-> 0]
           /\ Ladder(0, ~ev.isBid)' = Ladder(0, ~ev.isBid)
           /\ applyLevelUpdate(bookMgr', 0, ev.isBid, ev'.update) = bookMgr'

\* C21: applyLevelUpdate with qty = 0: if the price is in the ladder that
\* level is removed, the levels after it shift up by one and the last slot is
\* cleared; if the price is absent the ladder is unchanged, so applying the
\* same delete once or twice gives the same ladder.
C21_DeleteRemovesLevelIdempotent == [][C21_Step]_vars

\* C21 witness: a delete has just left BOOK_DEPTH - 1 levels, all of them
\* worse than the deleted price: the best level of a full ladder was removed
\* and every other level moved up.
C21_Witness ==
    /\ ev.kind = "applyLevelUpdate" /\ ev.update.qty = 0
    /\ Depth(Ladder(0, ev.isBid)) = BOOK_DEPTH - 1
    /\ ~Occupied(Ladder(0, ev.isBid)[BOOK_DEPTH - 1])
    /\ \A l \in Levels :
         Occupied(Ladder(0, ev.isBid)[l]) =>
            IF ev.isBid THEN Ladder(0, TRUE)[l].price < ev.update.price
                        ELSE Ladder(0, FALSE)[l].price > ev.update.price

\* C22 for one step: the echo delta leaves both ladders as they were, slot
\* by slot, and the slot VALID.
C22_Step ==
    ev'.kind = "echo" =>
        /\ Ladder(0, TRUE)' = Ladder(0, TRUE)
        /\ Ladder(0, FALSE)' = Ladder(0, FALSE)
        /\ bookMgr'.states[0] = "VALID"
        /\ bookMgr'.lastUpdateIds[0] = bookMgr.lastUpdateIds[0] + 1

\* C22: round trip: for a VALID slot, applying a delta that sets each
\* existing level's quantity to its current value and deletes nothing leaves
\* both ladders exactly unchanged (same prices, quantities and positions).
C22_EchoDeltaLeavesLaddersUnchanged == [][C22_Step]_vars

\* C22 witness: the echo delta has just been applied to a slot holding
\* BOOK_DEPTH levels on one side and levels on the other.
C22_Witness ==
    /\ ev.kind = "echo"
    /\ Depth(Ladder(0, ev.isBid)) = BOOK_DEPTH
    /\ Depth(Ladder(0, ~ev.isBid)) > 0

\* An applyDelta call on a SYNCING slot with a delta that ends before the
\* snapshot's next id.
StaleInSyncing(c) ==
    c.pre = "SYNCING" /\ c.finalUpdateId < c.snapshotUpdateId + 1

\* The replay loop of requestSnapshot run on slot i with the buffer
\* <<first, next>>, next being the delta that continues the snapshot.
ReplayOfTwo(i, firstId) ==
    LET d(id) == [firstUpdateId |-> id, finalUpdateId |-> id,
                  eventTimeMs |-> exchClock, bids |-> <<>>, asks |-> <<>>]
        next == bookMgr.snapshotUpdateIds[i] + 1
    IN replayBuffer(Begin([bookMgr EXCEPT !.deltaBuffers[i] = <<d(firstId), d(next)>>],
                          <<>>), i)

\* C23: in SYNCING a delta with u < snapshot_update_id + 1 is skipped: the
\* call returns true, the ladders, lastUpdateId, exchEventTimeMs and the
\* state are unchanged and nothing is emitted for the symbol; the slot is
\* not invalidated.  The replay loop goes on after a stale delta (the next
\* buffered delta is applied), whereas a delta ahead of the snapshot
\* invalidates the slot and is the last one replayed.
C23_StaleDeltaSkipped ==
    /\ \A k \in DOMAIN calls :
         StaleInSyncing(calls[k]) =>
            /\ calls[k].ret /\ calls[k].post = "SYNCING"
            /\ calls[k].untouched
            /\ calls[k].lastUpdateIdAfter = calls[k].lastUpdateId
            /\ calls[k].exchEventTimeMsAfter = calls[k].exchEventTimeMs
            /\ SentFor(calls[k].sym) = {}
    /\ \A k \in DOMAIN calls :
         (calls[k].from = "replay"
          /\ calls[k].firstUpdateId > calls[k].snapshotUpdateId + 1) =>
            /\ ~calls[k].ret /\ calls[k].post = "INVALID"
            /\ k = Len(calls)
    /\ \A i \in Symbols :
         bookMgr.states[i] = "SYNCING" =>
            /\ Len(ReplayOfTwo(i, bookMgr.snapshotUpdateIds[i]).calls) = 2
            /\ ReplayOfTwo(i, bookMgr.snapshotUpdateIds[i]).mgr.states[i] = "VALID"
            /\ Len(ReplayOfTwo(i, bookMgr.snapshotUpdateIds[i] + 2).calls) = 1
            /\ ReplayOfTwo(i, bookMgr.snapshotUpdateIds[i] + 2).mgr.states[i] = "INVALID"

\* C23 witness: a buffered delta that ends at or before the snapshot's id
\* was replayed and the slot is still SYNCING.
C23_Witness ==
    \E k \in DOMAIN calls :
        /\ calls[k].from = "replay" /\ StaleInSyncing(calls[k])
        /\ bookMgr.states[calls[k].sym] = "SYNCING"

\* The applyDelta calls of the step that applied their delta to slot i (they
\* returned true and left the slot VALID), as indices of calls.
AppliedTo(i) == {k \in DOMAIN calls : calls[k].sym = i /\ calls[k].ret
                                      /\ calls[k].post = "VALID"}

\* C24 for one step: a slot that is VALID after the step carries the
\* finalUpdateId of the last delta the step applied to it, or, if the step
\* applied none, was VALID before with the same lastUpdateId; and from one
\* VALID state to the next lastUpdateId does not decrease.
C24_Step ==
    \A i \in Symbols :
        bookMgr'.states[i] = "VALID" =>
            /\ AppliedTo(i)' # {} =>
                  \E k \in AppliedTo(i)' :
                     /\ \A j \in AppliedTo(i)' : j <= k
                     /\ bookMgr'.lastUpdateIds[i] = calls'[k].finalUpdateId
            /\ AppliedTo(i)' = {} =>
                  /\ bookMgr.states[i] = "VALID"
                  /\ bookMgr'.lastUpdateIds[i] = bookMgr.lastUpdateIds[i]
            /\ bookMgr.states[i] = "VALID" =>
                  bookMgr'.lastUpdateIds[i] >= bookMgr.lastUpdateIds[i]

\* C24: while a slot is VALID, lastUpdateId equals the finalUpdateId u of
\* the most recently applied delta, and it never decreases from one VALID
\* state to the next VALID state.
C24_LastUpdateIdFollowsAppliedDelta == [][C24_Step]_vars

\* C24 witness: a VALID slot has just applied a live delta and its
\* lastUpdateId moved up to that delta's finalUpdateId.
C24_Witness ==
    /\ ev.kind = "delta" /\ ev.pre = "VALID"
    /\ bookMgr.states[ev.sym] = "VALID"
    /\ calls # <<>>
    /\ calls[1].lastUpdateId < bookMgr.lastUpdateIds[ev.sym]

\* C25: between events a slot in INIT has all-zero bid and ask ladders and
\* lastUpdateId = snapshotUpdateId = 0: INIT is entered only by construction
\* or reset, and no delta or snapshot mutates the ladders of a slot while it
\* is in INIT.
C25_InitSlotIsEmpty ==
    \A i \in Symbols :
        bookMgr.states[i] = "INIT" =>
            /\ \A l \in Levels :
                 /\ ~Occupied(Ladder(i, TRUE)[l])
                 /\ ~Occupied(Ladder(i, FALSE)[l])
            /\ bookMgr.lastUpdateIds[i] = 0
            /\ bookMgr.snapshotUpdateIds[i] = 0

\* C25 witness: a slot that was VALID with a published non-empty ladder is
\* back in INIT after a gap.
C25_Witness ==
    /\ ev.kind = "delta" /\ ev.pre = "VALID"
    /\ bookMgr.states[ev.sym] = "INIT"
    /\ \E k \in DOMAIN sent :
         /\ sent[k].quote.sym = ev.sym
         /\ \E l \in Levels : sent[k].prev.bidQtys[l] > 0 \/ sent[k].prev.askQtys[l] > 0

\* C26 for one step: a message carrying a delta for a slot that was INVALID
\* leaves that slot INIT with zero ladders, an empty delta buffer,
\* snapshotRequested false and lastUpdateId = snapshotUpdateId = 0,
\* whatever the delta's U and u.
C26_Step ==
    (ev'.kind = "delta" /\ ev'.pre = "INVALID") =>
        /\ bookMgr.states[ev'.sym] = "INVALID"
        /\ IsFresh(ev.sym)'
        /\ calls' = <<>>

\* C26: any delta received for a slot in INVALID, whatever its U and u,
\* moves the slot to INIT and discards all residue (ladders zeroed, buffer
\* emptied, snapshotRequested cleared, both ids zeroed); a slot therefore
\* never stays INVALID across two consecutive deltas for its symbol.
C26_DeltaInInvalidResets == [][C26_Step]_vars

\* C26 witness: a delta has just arrived for a slot that was INVALID and the
\* slot is now INIT.
C26_Witness ==
    /\ ev.kind = "delta" /\ ev.pre = "INVALID"
    /\ bookMgr.states[ev.sym] = "INIT"
    /\ fetches = {}

\* C27: the delay of the k-th consecutive failed upstream attempt since the
\* last successful handshake (k = 0, 1, ...) is min(1000 * 2^k, 8000) ms and
\* is slept in full while running; binanceReconnectAttempt counts the
\* failures since the last handshake, so it is 0 after every handshake; no
\* delay exceeds 8000 ms.
C27_BackoffDelayDoublesToCap ==
    /\ binanceReconnectAttempt = ev.failed
    /\ (ev.kind = "handshake" => binanceReconnectAttempt = 0)
    /\ (ev.kind \in {"sleep", "wake"} /\ ev.where = "ws" =>
          /\ ev.attempt = ev.failed - 1
          /\ ev.delay = Min(1000 * 2 ^ ev.attempt, 8000)
          /\ ev.delay <= 8000)
    /\ (ev.kind = "wake" => ev.slept = ev.delay)

\* The fifth consecutive failure (k = 4) has been slept out at the cap, and a
\* handshake then returns the counter to 0.
C27_Witness ==
    /\ ev.kind = "handshake"
    /\ ev.where = "ws"
    /\ ev.attempt = 4
    /\ ev.delay = MAX_BACKOFF_MS
    /\ ev.slept = MAX_BACKOFF_MS
    /\ binanceReconnectAttempt = 0
    /\ running

\* C28: once stop() has set the shutdown flag, a backoff sleep in progress
\* ends within one 100 ms increment and no new connection (to the exchange
\* or to the sink) is started.
C28_StopEndsSleepAndStartsNoConnection ==
    ~running =>
        /\ (ev.sleptAtStop >= 0 => ev.slept <= ev.sleptAtStop + CHECK_INTERVAL_MS)
        /\ ev.opened = 0

\* The full-depth book of one side after a level update: the level at the
\* update's price removed and, for a positive quantity, the update put at its
\* place in the side's order; no level is dropped for depth.
FullDepthLevels(side, isBid, update) ==
    LET Better(l) == IF isBid THEN l.price > update.price
                              ELSE l.price < update.price
        Worse(l) == IF isBid THEN l.price < update.price
                             ELSE l.price > update.price
    IN SelectSeq(side, Better)
       \o (IF update.qty > 0 THEN <<update>> ELSE <<>>)
       \o SelectSeq(side, Worse)

\* C29: when handleDelta has fetched a snapshot (deeper than BOOK_DEPTH or
\* not) and applied the buffered delta that continues it, so that the slot is
\* VALID, and the full-depth book (the snapshot's side with the delta's
\* update applied) has at least BOOK_DEPTH levels on the updated side, the
\* slot's ladder of that side holds exactly the best BOOK_DEPTH of them.
C29_ValidLadderHoldsBestLevels ==
    (ev.kind = "requestSnapshot" /\ bookMgr.states[0] = "VALID") =>
        \E full \in {FullDepthLevels(IF ev.isBid THEN ev.bids ELSE ev.asks,
                                     ev.isBid, ev.update)} :
            Len(full) >= BOOK_DEPTH =>
                Ladder(0, ev.isBid) = Pad(SubSeq(full, 1, BOOK_DEPTH))

\* The step processed one inbound message; when it arrived symbol i was
\* VALID, had been published at least PUBLISH_TIMEOUT_MS before (ev.due) and
\* held the ladders of its last emission; the message did not invalidate it.
HeartbeatDue(i) ==
    /\ ev'.kind \in {"delta", "ignored"}
    /\ i \in ev'.due
    /\ samePricesAs(getL5(bookMgr, i, 0), lastSent[i])
    /\ bookMgr'.states[i] = "VALID"

\* C30 as stated, for one step: the message emits exactly one quote for the
\* symbol, with the ladders and is_valid of the previous emission and a
\* larger sequence number.
C30_StepAsStated ==
    \A i \in Symbols :
        HeartbeatDue(i) =>
            /\ Cardinality(SentFor(i)') = 1
            /\ \A k \in SentFor(i)' :
                  /\ samePricesAs(sent'[k].quote, lastSent[i])
                  /\ sent'[k].quote.isValid = lastSent[i].isValid
                  /\ sent'[k].quote.fhSeqNo > lastSent[i].fhSeqNo

\* C30 (as stated): if a symbol is VALID, has been published and its ladders
\* have not changed since its last emission at least PUBLISH_TIMEOUT_MS ago,
\* the next inbound message that does not invalidate it emits exactly one
\* quote for it, with ladders and is_valid identical to the previous
\* emission and a larger sequence number.
C30_HeartbeatRepeatsLastEmission == [][C30_StepAsStated]_vars

\* C30 amended, for one step: exactly one quote, with the is_valid of the
\* previous emission, a larger sequence number and the ladders the slot
\* holds after the message, which are those of the previous emission when
\* the message left the slot's ladders as they were.
C30_Step ==
    \A i \in Symbols :
        HeartbeatDue(i) =>
            /\ Cardinality(SentFor(i)') = 1
            /\ \A k \in SentFor(i)' :
                  /\ samePricesAs(sent'[k].quote, getL5(bookMgr', i, 0))
                  /\ samePricesAs(getL5(bookMgr', i, 0), getL5(bookMgr, i, 0)) =>
                        samePricesAs(sent'[k].quote, lastSent[i])
                  /\ sent'[k].quote.isValid = lastSent[i].isValid
                  /\ sent'[k].quote.fhSeqNo > lastSent[i].fhSeqNo

\* C30 (amended): under the same conditions the message emits exactly one
\* quote for the symbol (never zero, never one from maybePublish and one
\* from the sweep), with is_valid identical to the previous emission and a
\* larger sequence number; its ladders are identical to the previous
\* emission unless the message is a delta that changes the symbol's ladders,
\* in which case the one quote carries the changed ladders.
C30_HeartbeatEmitsExactlyOneQuote == [][C30_Step]_vars

\* C30 witness: a message arrived when a VALID, published symbol was due and
\* the sweep emitted exactly one quote for it, a repeat of the previous
\* emission under a larger sequence number.
C30_Witness ==
    /\ ev.kind \in {"delta", "ignored"}
    /\ \E i \in ev.due :
          /\ bookMgr.states[i] = "VALID"
          /\ Cardinality(SentFor(i)) = 1
          /\ \A k \in SentFor(i) :
                /\ sent[k].path = "heartbeat"
                /\ sent[k].prev.isValid
                /\ samePricesAs(sent[k].quote, sent[k].prev)
                /\ sent[k].quote.fhSeqNo > sent[k].prev.fhSeqNo

\* C31: for any symbol, two consecutive emissions are never both
\* invalidation quotes: an invalidation quote handed to publishL5 is never
\* preceded, as the last quote emitted for that symbol, by another
\* invalidation quote.
C31_InvalidationsNotDuplicated ==
    \A k \in DOMAIN sent :
        ~sent[k].quote.isValid =>
            (sent[k].prev.fhSeqNo > 0 => sent[k].prev.isValid)

\* C32: between events, a symbol whose most recent emitted quote has
\* is_valid = true is in VALID (every departure from VALID, by gap or by
\* resetAll, has been announced by an invalidation quote).
C32_ValidQuoteImpliesValidSlot ==
    \A i \in Symbols :
        (lastSent[i].fhSeqNo > 0 /\ lastSent[i].isValid) =>
            bookMgr.states[i] = "VALID"

\* C33: once the feed of a symbol has settled (contiguous deltas, successful
\* snapshots not older than U - 1, no upstream reset) with the slot in INIT,
\* SYNCING or INVALID, the slot eventually is VALID and a quote with
\* is_valid = true has been emitted for it.
C33_SettledFeedLeadsToValidQuote ==
    (pc \in {"rebuild", "rebuildMsg"}) ~>
        (/\ bookMgr.states[0] = "VALID"
         /\ \E k \in SentFor(0) : sent[k].quote.isValid)

\* C33 witness: a feed that settled with the slot INVALID has been rebuilt
\* and the valid quote sent.
C33_Witness ==
    /\ pc = "rebuilt"
    /\ ev.from = "INVALID"
    /\ bookMgr.states[0] = "VALID"
    /\ \E k \in SentFor(0) : sent[k].quote.isValid

(***************************************************************************)
(* The book store against the unbounded reference book.  One slot gets a    *)
(* snapshot and then up to MaxRefDeltas deltas of one level update each,    *)
(* stale, continuing or with a gap; ev.ref is the reference book: the       *)
(* snapshot's sides untruncated, with the level update of every delta that  *)
(* applyDelta accepted applied by FullDepthLevels (no depth cap).           *)
(***************************************************************************)
RefInit ==
    /\ bookMgr = NewManager(1)
    /\ \E isBid \in BOOLEAN :
         ev = [kind |-> "init", isBid |-> isBid, n |-> 0,
               ref |-> [bids |-> <<>>, asks |-> <<>>]]
    /\ lastSent = [i \in {0} |-> EmptyQuote(i)]
    /\ fhSeqNo = 0
    /\ tpHandle = -1
    /\ running = TRUE
    /\ binanceReconnectAttempt = 0
    /\ pc = "book"
    /\ exchClock = 1
    /\ sent = <<>>
    /\ calls = <<>>
    /\ attempts = {}
    /\ fetches = {}
    /\ applied = {}
    /\ lastSeqSent = 0
    /\ resetSinceSent = FALSE

\* applySnapshot(0, lastUpdateId, bids, asks) on the fresh slot.
RefSnapshot ==
    /\ ev.kind = "init"
    /\ \E s \in BookSnapshots(ev.isBid), id \in 1 .. MaxUpdateId :
         /\ bookMgr' = applySnapshot(bookMgr, 0, id, s.bids, s.asks)
         /\ ev' = [kind |-> "applySnapshot", isBid |-> ev.isBid, n |-> 0,
                   ref |-> [bids |-> s.bids, asks |-> s.asks]]
    /\ BookFrame

\* applyDelta(0, U, u, ...) with U = u = lastUpdateIds_[0] + ahead and one
\* level update: stale or a gap for ahead = 0, continuing for ahead = 1.
RefDelta ==
    /\ bookMgr.states[0] \in {"SYNCING", "VALID"}
    /\ ev.n < MaxRefDeltas
    /\ \E p \in Prices, q \in 0 .. MaxQty, ahead \in {0, 1} :
         \E r \in {applyDelta(bookMgr, 0, bookMgr.lastUpdateIds[0] + ahead,
                              bookMgr.lastUpdateIds[0] + ahead,
                              IF ev.isBid THEN <<[price |-> p, qty |-> q]>> ELSE <<>>,
                              IF ev.isBid THEN <<>> ELSE <<[price |-> p, qty |-> q]>>,
                              bookMgr.exchEventTimeMs[0])} :
           /\ bookMgr' = r.mgr
           /\ ev' = [kind |-> "applyDelta", isBid |-> ev.isBid, n |-> ev.n + 1,
                     ref |-> IF r.ret /\ r.mgr.lastUpdateIds[0] # bookMgr.lastUpdateIds[0]
                             THEN (IF ev.isBid
                                   THEN [ev.ref EXCEPT !.bids =
                                           FullDepthLevels(@, TRUE, [price |-> p, qty |-> q])]
                                   ELSE [ev.ref EXCEPT !.asks =
                                           FullDepthLevels(@, FALSE, [price |-> p, qty |-> q])])
                             ELSE ev.ref]
    /\ BookFrame

RefNext ==
    \/ RefSnapshot
    \/ RefDelta

RefSpec == RefInit /\ [][RefNext]_vars

\* Every occupied level of a ladder is a level of the reference side.
WithinReference(lad, side) ==
    \A l \in Levels :
        Occupied(lad[l]) => \E k \in DOMAIN side : side[k] = lad[l]

\* C34: in a VALID slot every occupied ladder level (price, qty) is a level
\* of the unbounded reference book (the same snapshot untruncated, the same
\* accepted deltas): no price the reference lacks, no other quantity.
C34_LadderWithinReferenceBook ==
    bookMgr.states[0] = "VALID" =>
        /\ WithinReference(Ladder(0, TRUE), ev.ref.bids)
        /\ WithinReference(Ladder(0, FALSE), ev.ref.asks)

\* C34 witness: a VALID slot after a snapshot deeper than BOOK_DEPTH and
\* three deltas, whose ladder is short of the reference book's depth.
C34_Witness ==
    /\ bookMgr.states[0] = "VALID"
    /\ ev.n = MaxRefDeltas
    /\ \E side \in {IF ev.isBid THEN ev.ref.bids ELSE ev.ref.asks} :
          /\ Len(side) >= BOOK_DEPTH
          /\ Depth(Ladder(0, ev.isBid)) < BOOK_DEPTH
          /\ Depth(Ladder(0, ev.isBid)) > 0

\* The last quote of the step handed to the sink for symbol i.
LastSentFor(i) == sent[MinOr({k \in SentFor(i) : \A j \in SentFor(i) : j <= k}, 1)]

\* C35: the last-published cache of a symbol always equals the last quote
\* handed to the sink for it and has_published is true iff a quote was handed
\* to the sink: recordPublish runs once per emission on every path
\* (maybePublish, publishInvalid, heartbeat sweep), also when the send and its
\* retry failed, so a dropped quote restarts the heartbeat timer as well.
C35_CacheEqualsLastQuoteHandedToSink ==
    \A i \in Symbols :
        /\ bookMgr.lastPublished[i] = lastSent[i]
        /\ bookMgr.hasPublished[i] <=> (lastSent[i].fhSeqNo > 0)
        /\ SentFor(i) # {} =>
             /\ bookMgr.hasPublished[i]
             /\ bookMgr.lastPublished[i] = LastSentFor(i).quote
             /\ bookMgr.elapsed[i] = 0

\* C35 witness: maybePublish has handed a quote to the sink, after an earlier
\* one for the symbol, that was dropped (send and retry failed) and is the
\* cached quote of its symbol.
C35_Witness ==
    \E k \in DOMAIN sent :
        /\ sent[k].outcome = "dropped"
        /\ sent[k].path = "maybePublish"
        /\ sent[k].prev.fhSeqNo > 0
        /\ bookMgr.lastPublished[sent[k].quote.sym] = sent[k].quote

\* C36: every send of a quote to the sink uses a valid, open transport handle
\* (tpHandle_ > 0); in particular, after shutdown was requested while the sink
\* was being reconnected (connectToTP returned false, handle -1), no later
\* send of the same processing step is attempted on the invalid handle.
C36_EverySendUsesOpenHandle ==
    \A k \in DOMAIN sent : sent[k].handle > 0

\* C37: the snapshot is fetched while the first INIT delta is handled, so
\* between events a symbol's delta buffer holds at most one delta and is
\* empty unless a failed fetch left the slot INVALID; a slot in INIT has an
\* empty buffer and snapshotRequested = false, and every delta received in
\* INIT triggers a snapshot request.
C37_BufferHoldsAtMostTheDeltaOfAFailedFetch ==
    /\ \A i \in Symbols :
         /\ Len(bookMgr.deltaBuffers[i]) <= 1
         /\ bookMgr.deltaBuffers[i] # <<>> =>
              bookMgr.states[i] = "INVALID" /\ bookMgr.snapshotRequested[i]
         /\ bookMgr.states[i] = "INIT" =>
              bookMgr.deltaBuffers[i] = <<>> /\ ~bookMgr.snapshotRequested[i]
    /\ (ev.kind = "delta" /\ ev.pre = "INIT") => ev.sym \in fetches

\* C37 witness: a delta received in INIT whose snapshot fetch failed: the
\* slot is INVALID and its buffer holds that one delta.
C37_Witness ==
    /\ ev.kind = "delta" /\ ev.pre = "INIT"
    /\ ev.sym \in fetches
    /\ bookMgr.states[ev.sym] = "INVALID"
    /\ Len(bookMgr.deltaBuffers[ev.sym]) = 1

====
